---- MODULE Spec2Model ----
(***************************************************************************)
(* Claims-Triage-AI: the agent orchestrator (pipeline, retry loop and      *)
(* circuit breaker), the audit hash functions and the audit repository,    *)
(* and the team-load bookkeeping, as state machines.                        *)
(*                                                                         *)
(*   Spec       concurrent run_triage calls on one AgentOrchestrator       *)
(*   SpecAudit  AuditRepository.create_audit_log and generate_audit_hash   *)
(*   SpecTeams  RouterAgent.update_team_load, TeamRepository.update_team_  *)
(*              load                                                       *)
(*   SpecPairs  acquire / release pairs on RouterAgent.update_team_load    *)
(*   SpecRouter RouterAgent.route_case under changing team loads           *)
(*   SpecAgents the entry points of the five agents                        *)
(*   SpecDecision  the numbers of _generate_final_decision                 *)
(*   SpecRetry  one _run_with_retry call, for any agent function           *)
(*   SpecClassify  classifier, risk scorer and router on one case          *)
(*   SpecRules  RouterAgent._apply_business_rules on its own               *)
(*   SpecCapacity  RouterAgent._validate_team_capacity on its own          *)
(*   SpecConfidence  ComplianceAgent._calculate_compliance_confidence      *)
(*   SpecPolicies  the policy directory and PolicyManager._policy_watcher  *)
(*   SpecActions   DecisionSupportAgent._generate_actions                  *)
(*   SpecJobs      the enqueue_* helpers and BackgroundJobProcessor        *)
(*   SpecPii    PII detection and redaction: ComplianceAgent on a case,    *)
(*              PIIDetectionMiddleware.redact_pii on a text                *)
(***************************************************************************)
EXTENDS Integers, Sequences, FiniteSets, TLC

(***************************************************************************)
(* Bounds of the model.                                                    *)
(***************************************************************************)
\* concurrent run_triage coroutines on the one orchestrator
NumRuns == 2
\* no new run_triage call is started once failure_count has reached this
MaxFailures == 7
\* the clock stops advancing at this reading (seconds)
MaxTime == 90
\* seconds the clock advances in one step
TickStep == 30
\* rows inserted into audit_logs in one behaviour
MaxAuditLogs == 3
\* generate_audit_hash calls recorded in one behaviour
MaxHashCalls == 3
\* team-load updates made in one behaviour
MaxUpdates == 4
\* the larger load_change tried, besides 1
LoadBurst == 10
\* acquire / release pairs that may be outstanding at once
NumPairs == 2
\* team-load updates made before the first acquire
MaxPreloads == 2
\* calls of process_compliance, _detect_pii and redact_pii in one behaviour
MaxPiiCalls == 2
\* the compliance issues of one case, and the calls of
\* _calculate_compliance_confidence in one behaviour
MaxIssues == 16
MaxConfidenceCalls == 2
\* the latest modification time a policy file gets
MaxMtime == 3
\* the number of jobs enqueued
MaxJobs == 3

Runs == 1..NumRuns

(***************************************************************************)
(* Python's None, for a time and for a string.                             *)
(***************************************************************************)
NoTime == -1
NoneStr == "None"

(***************************************************************************)
(* AgentOrchestrator.__init__: configuration.                              *)
(***************************************************************************)
max_retries == 3
timeout_seconds == 30
circuit_breaker_threshold == 5
circuit_breaker_timeout == 60

(***************************************************************************)
(* The five pipeline steps of _run_agent_pipeline, in source order: the    *)
(* agent entry point awaited, the class of the object it returns and the   *)
(* agent_name its AgentResult would carry.                                 *)
(***************************************************************************)
PipelineSteps ==
    << [func |-> "classify",           cls |-> "ClassificationResult",  agent |-> "ClassifierAgent"],
       [func |-> "score_risk",         cls |-> "RiskScoreResult",       agent |-> "RiskScorerAgent"],
       [func |-> "route_case",         cls |-> "RoutingResult",         agent |-> "RouterAgent"],
       [func |-> "provide_support",    cls |-> "DecisionSupportResult", agent |-> "DecisionSupportAgent"],
       [func |-> "process_compliance", cls |-> "ComplianceResult",      agent |-> "ComplianceAgent"] >>

(***************************************************************************)
(* The attributes of the objects the agents return.  They are plain        *)
(* @dataclass classes: their fields and nothing else; to_agent_result is   *)
(* a method of the agent classes, not of these.                            *)
(***************************************************************************)
ClassificationResult ==
    {"case_type", "urgency", "confidence", "reasoning", "missing_fields",
     "processing_time_ms"}

RiskScoreResult ==
    {"risk_score", "risk_level", "confidence", "rationale", "top_features",
     "risk_factors", "processing_time_ms"}

RoutingResult ==
    {"recommended_team", "sla_target_hours", "escalation_flag", "confidence",
     "reasoning", "policy_applied", "alternative_routes", "processing_time_ms"}

DecisionSupportResult ==
    {"suggested_actions", "template_response", "checklist",
     "knowledge_sources", "confidence", "reasoning", "processing_time_ms"}

ComplianceResult ==
    {"pii_detected", "pii_types", "redacted_content", "audit_log",
     "compliance_issues", "confidence", "reasoning", "processing_time_ms"}

\* the class of the object each pipeline step gets back
ResultClassAttrs ==
    [ ClassificationResult |-> ClassificationResult,
      RiskScoreResult |-> RiskScoreResult,
      RoutingResult |-> RoutingResult,
      DecisionSupportResult |-> DecisionSupportResult,
      ComplianceResult |-> ComplianceResult ]

\* Python attribute lookup on a result object: found, or AttributeError
HasAttr(cls, name) == name \in ResultClassAttrs[cls]

(***************************************************************************)
(* How one awaited agent call can end.  Every agent entry point wraps its  *)
(* body in try/except Exception and returns its safe default from the      *)
(* except branch, so a call returns a computed result ("result"), returns  *)
(* the safe default ("default"), or is cut off by asyncio.wait_for         *)
(* ("timeout").                                                            *)
(***************************************************************************)
AgentReturnKinds == {"result", "default"}

(***************************************************************************)
(* RouterAgent.team_capabilities: the capacity of each team.               *)
(***************************************************************************)
TeamCapacity ==
    [ Tier1 |-> 100, Tier2 |-> 200, Specialist |-> 50, FraudReview |-> 30,
      Escalation |-> 20 ]

TeamNames == DOMAIN TeamCapacity

(***************************************************************************)
(* The teams table as init_db seeds it: the capacity of each row.          *)
(***************************************************************************)
TeamRowCapacity ==
    [ AutoInsuranceTeam |-> 50, HealthInsuranceTeam |-> 40,
      FraudReviewTeam |-> 20, LegalTeam |-> 15, HealthcareTeam |-> 30 ]

TeamRowNames == DOMAIN TeamRowCapacity

\* the load_change arguments tried
LoadChanges == {-LoadBurst, -1, 1, LoadBurst}

\* the team arguments tried: the configured teams and one that is not
TeamArgs == TeamNames \cup {"Billing"}

Pairs == 1..NumPairs

(***************************************************************************)
(* The AuditLogCreate payloads tried: main.py's audit entries for a case.  *)
(***************************************************************************)
AuditData ==
    { [action |-> a, resource_type |-> "case", resource_id |-> "case-1",
       details |-> "{}"] : a \in {"case_created", "triage_completed"} }

\* the (data, previous_hash) arguments of generate_audit_hash tried
HashData == {"action=test,user_id=123"}
PreviousHashes == {NoneStr, "abc123"}

\* hashlib.sha256(text).hexdigest(), taken as collision free: the digest
\* stands for the text digested
Sha256(text) == "sha256:" \o text

\* json.dumps(hash_data, sort_keys=True) of _calculate_hash: the keys in
\* sorted order
CalculateHashJson(audit_data, timestamp) ==
    "{action:" \o audit_data.action \o ",details:" \o audit_data.details
    \o ",resource_id:" \o audit_data.resource_id
    \o ",resource_type:" \o audit_data.resource_type
    \o ",timestamp:" \o ToString(timestamp) \o "}"

\* AuditRepository._calculate_hash, called when utcnow() reads timestamp
_calculate_hash(audit_data, timestamp) ==
    Sha256(CalculateHashJson(audit_data, timestamp))

\* generate_audit_hash, called when utcnow() reads timestamp
generate_audit_hash(data, previous_hash, timestamp) ==
    Sha256("{data:" \o data
           \o ",previous_hash:"
           \o (IF previous_hash = NoneStr THEN "" ELSE previous_hash)
           \o ",timestamp:" \o ToString(timestamp) \o "}")

VARIABLES
    \* AgentOrchestrator circuit breaker state
    failure_count, last_failure_time, circuit_open,
    \* time.time(), in seconds
    now,
    \* the run_triage coroutines: position and locals of each
    run,
    \* history: the time circuit_open last went from False to True
    opened_at,
    \* history: "no", or the breaker state ("closed", "open") that
    \* reset_circuit_breaker found when it was the last operation on the
    \* orchestrator
    just_reset,
    \* the audit_logs table, in insertion order
    audit_logs,
    \* history: the generate_audit_hash calls made, with their results
    hash_calls,
    \* RouterAgent.team_capabilities[team]["current_load"]
    team_capabilities,
    \* teams.current_load, by team row
    team_rows,
    \* history: number of team-load updates made
    updates,
    \* the acquire / release pairs: "idle", "held" or "released", and the team
    pairs,
    \* history: the load of each team when the first acquire was made
    base_load,
    \* history: the last route_case call, its arguments and its result
    routed,
    \* settings.risk_threshold_high / risk_threshold_medium as the
    \* RiskScorerAgent read them, in 1/10000
    risk_thresholds,
    \* history: the last call of an agent entry point, its arguments and what
    \* came back
    agent_ret,
    \* settings.pii_detection_enabled as the ComplianceAgent read it
    pii_detection_enabled,
    \* the dictionaries of the submitted case and of its copies, by object
    \* identity
    heap,
    \* history: the heap as the case was submitted
    submitted,
    \* the body a caller of PIIDetectionMiddleware.redact_pii holds
    body_str,
    \* history: the calls of process_compliance, _detect_pii and redact_pii
    \* made, their arguments and what came back
    pii_ret,
    \* one _run_with_retry call on its own: position, loop index,
    \* last_exception, the outcome of each attempt made, what it returned or
    \* raised
    retry,
    \* the policy directory: for each file whether it exists and its
    \* modification time (the content is named by the time it was written)
    policy_files,
    \* the version of each policy the policy evaluator holds (0: none)
    opa_policies,
    \* PolicyManager._policy_watcher: position, last_modified, the files
    \* left of this poll; history: the files found changed by this poll and
    \* those it tried to reload
    watcher,
    \* the background_jobs queue
    job_queue,
    \* BackgroundJobProcessor: position and the job at hand
    processor,
    \* history: the jobs enqueued and the handler calls made
    job_log

orchVars == <<failure_count, last_failure_time, circuit_open, run,
              opened_at, just_reset>>

auditVars == <<audit_logs, hash_calls>>

pairVars == <<pairs, base_load>>

piiVars == <<pii_detection_enabled, heap, submitted, body_str, pii_ret>>

agentVars == <<risk_thresholds, agent_ret, piiVars, retry>>

teamVars == <<team_capabilities, team_rows, updates, pairVars, routed,
              agentVars>>

policyVars == <<policy_files, opa_policies, watcher>>

jobVars == <<job_queue, processor, job_log>>

vars == <<failure_count, last_failure_time, circuit_open, now, run,
          opened_at, just_reset, audit_logs, hash_calls, team_capabilities,
          team_rows, updates, pairs, base_load, routed, risk_thresholds,
          agent_ret, pii_detection_enabled, heap, submitted, body_str,
          pii_ret, retry, policy_files, opa_policies, watcher, job_queue,
          processor, job_log>>

(***************************************************************************)
(* OrchestrationResult, as run_triage builds it.                           *)
(***************************************************************************)
\* _find_agent_result: the name of the agent result found, or "{}"
_find_agent_result(agent_results, agent_name) ==
    IF \E i \in 1..Len(agent_results) : agent_results[i].agent_name = agent_name
    THEN agent_name
    ELSE "{}"

\* _generate_final_decision: each key with the agent result it is read from
\* ("{}" where it falls to the key's literal default)
_generate_final_decision(agent_results) ==
    LET c  == _find_agent_result(agent_results, "ClassifierAgent")
        k  == _find_agent_result(agent_results, "RiskScorerAgent")
        ro == _find_agent_result(agent_results, "RouterAgent")
        d  == _find_agent_result(agent_results, "DecisionSupportAgent")
        co == _find_agent_result(agent_results, "ComplianceAgent")
    IN  [ case_type |-> c, urgency |-> c, risk_level |-> k, risk_score |-> k,
          recommended_team |-> ro, sla_target_hours |-> ro,
          escalation_flag |-> ro, suggested_actions |-> d,
          missing_fields |-> c, compliance_issues |-> co, pii_detected |-> co,
          overall_confidence |-> "agent_results" ]

\* the empty dict
EmptyDict == <<>>

\* the OrchestrationResult of the success return
SuccessResult(agent_results) ==
    [ success |-> TRUE, agent_results |-> agent_results,
      final_decision |-> _generate_final_decision(agent_results),
      error_message |-> NoneStr ]

\* variant: the except branch forgets error_message
FailureResult_NoMessage(e) ==
    [ success |-> FALSE, agent_results |-> <<>>, final_decision |-> EmptyDict,
      error_message |-> NoneStr ]

\* the OrchestrationResult of the except branch
FailureResult(e) ==
    [ success |-> FALSE, agent_results |-> <<>>, final_decision |-> EmptyDict,
      error_message |-> e ]

\* no OrchestrationResult yet
NoResult ==
    [ success |-> FALSE, agent_results |-> <<>>, final_decision |-> EmptyDict,
      error_message |-> "pending" ]

(***************************************************************************)
(* The circuit breaker's conditions.                                       *)
(***************************************************************************)
\* the breaker check rejects the call
BreakerRejects(open, lft, t) ==
    open /\ t - lft < circuit_breaker_timeout

\* variant: the threshold compared with > instead of >=
BreakerTrips_Strict(count) == count > circuit_breaker_threshold

\* the except branch opens the breaker
BreakerTrips(count) == count >= circuit_breaker_threshold

IdleRun ==
    [ pc |-> "idle", step |-> 0, attempt |-> 0, deadline |-> NoTime,
      slept |-> 0,
      typed |-> <<>>, agent_results |-> <<>>, invoked |-> <<>>,
      last_exception |-> NoneStr, ret |-> NoResult,
      started |-> "closed", open_after |-> FALSE ]

\* settings.risk_threshold_high = 0.7, risk_threshold_medium = 0.4
DefaultThresholds == [high |-> 7000, medium |-> 4000]

\* the thresholds tried: the defaults and two set through the environment
ThresholdConfigs ==
    { DefaultThresholds,
      [high |-> 8000, medium |-> 6000],
      [high |-> 5000, medium |-> 3000] }

\* the *.rego files of the policy directory in the order glob lists them:
\* two of the default policies and one created later
GlobOrder == <<"routing_policy.rego", "custom.rego", "compliance_policy.rego">>

PolicyFileNames == {GlobOrder[i] : i \in 1..Len(GlobOrder)}

\* load_default_policies has written the default policies (at time 1) and
\* loaded them
DefaultPolicyFiles ==
    [f \in PolicyFileNames |->
        IF f = "custom.rego" THEN [exists |-> FALSE, mtime |-> 0]
        ELSE [exists |-> TRUE, mtime |-> 1]]

\* start_policy_watcher has created the task; last_modified = {}
WatcherStarted ==
    [ pc |-> "sleep", listing |-> <<>>, policy_file |-> NoneStr,
      current_mtime |-> 0, policy_content |-> 0,
      last_modified |-> [f \in PolicyFileNames |-> 0],
      seconds |-> 0, changed |-> {}, tried |-> {}, success |-> TRUE ]

\* no job dequeued
NoJob == <<>>

\* BackgroundJobProcessor.start has set running and is about to look at the
\* queue; id is the number (history) of the job in job_data
ProcessorStarted == [pc |-> "sleep", id |-> 0, job_data |-> NoJob]

\* no _run_with_retry call made yet
IdleRetry ==
    [ pc |-> "idle", attempt |-> 0, last_exception |-> NoneStr,
      outcomes |-> <<>>, slept |-> 0, result |-> NoneStr ]

InitExceptSettings ==
    /\ failure_count = 0
    /\ last_failure_time = NoTime
    /\ circuit_open = FALSE
    /\ now = 0
    /\ run = [r \in Runs |-> IdleRun]
    /\ opened_at = NoTime
    /\ just_reset = "no"
    /\ audit_logs = <<>>
    /\ hash_calls = {}
    /\ team_capabilities = [t \in TeamNames |-> 0]
    /\ team_rows = [t \in TeamRowNames |-> 0]
    /\ updates = 0
    /\ pairs = [p \in Pairs |-> [pc |-> "idle", team |-> "None"]]
    /\ base_load = [t \in TeamNames |-> 0]
    /\ routed = <<>>
    /\ agent_ret = <<>>
    /\ pii_ret = <<>>
    /\ retry = IdleRetry
    /\ policy_files = DefaultPolicyFiles
    /\ opa_policies = [f \in PolicyFileNames |->
                          IF DefaultPolicyFiles[f].exists THEN 1 ELSE 0]
    /\ watcher = WatcherStarted
    /\ job_queue = <<>>
    /\ processor = ProcessorStarted
    /\ job_log = [enqueued |-> <<>>, handled |-> <<>>]

\* no case submitted and no text held
NoCaseNoText ==
    /\ heap = <<>>
    /\ submitted = <<>>
    /\ body_str = <<>>

Init ==
    /\ InitExceptSettings
    /\ risk_thresholds = DefaultThresholds
    /\ pii_detection_enabled = TRUE
    /\ NoCaseNoText

\* variant: the except branch counts the failure without noting its time
ExceptBranch_NoTime(r, base, e) ==
    LET count == failure_count + 1
        trips == BreakerTrips(count)
    IN  /\ failure_count' = count
        /\ last_failure_time' = last_failure_time
        /\ circuit_open' = (IF trips THEN TRUE ELSE circuit_open)
        /\ opened_at' = (IF trips /\ ~circuit_open THEN now ELSE opened_at)
        /\ just_reset' = "no"
        /\ run' = [run EXCEPT ![r] =
                     [base EXCEPT !.pc = "done", !.step = 0, !.attempt = 0,
                                  !.deadline = NoTime,
                                  !.ret = FailureResult(e),
                                  !.open_after = circuit_open']]

(***************************************************************************)
(* The except branch of run_triage: count the failure, stamp it, open the  *)
(* breaker at the threshold, return the failure result.                    *)
(***************************************************************************)
ExceptBranch(r, base, e) ==
    LET count == failure_count + 1
        trips == BreakerTrips(count)
    IN  /\ failure_count' = count
        /\ last_failure_time' = now
        /\ circuit_open' = (IF trips THEN TRUE ELSE circuit_open)
        /\ opened_at' = (IF trips /\ ~circuit_open THEN now ELSE opened_at)
        /\ just_reset' = "no"
        /\ run' = [run EXCEPT ![r] =
                     [base EXCEPT !.pc = "done", !.step = 0, !.attempt = 0,
                                  !.deadline = NoTime,
                                  !.ret = FailureResult(e),
                                  !.open_after = circuit_open']]

(***************************************************************************)
(* _run_with_retry, entered for pipeline step s: the first attempt's       *)
(* asyncio.wait_for is started and the coroutine suspends.                 *)
(***************************************************************************)
StartAttempt(base, s, a) ==
    [base EXCEPT !.pc = "agent_call", !.step = s, !.attempt = a,
                 !.deadline = now + timeout_seconds,
                 !.last_exception = IF a = 0 THEN NoneStr
                                    ELSE base.last_exception,
                 !.invoked = IF a = 0
                             THEN Append(base.invoked, PipelineSteps[s].func)
                             ELSE base.invoked]

\* variant: linear backoff
wait_time_Linear(a) == 2 * a

\* the exponential backoff slept after failed attempt a
wait_time(a) == 2 ^ a

\* history: the breaker as a call finds it: closed by the reset just before
\* (from open, from closed), closed, or open for less than
\* circuit_breaker_timeout since it opened, or open for at least that long
BreakerAtCall ==
    IF just_reset # "no" THEN "reset_" \o just_reset
    ELSE IF ~circuit_open THEN "closed"
    ELSE IF opened_at # NoTime /\ now - opened_at >= circuit_breaker_timeout
         THEN "open_timeout_elapsed"
         ELSE "open"

(***************************************************************************)
(* run_triage up to its first suspension: the breaker check, then either   *)
(* the except branch (breaker open) or the first agent call.               *)
(***************************************************************************)
run_triage(r) ==
    LET base == [IdleRun EXCEPT !.started = BreakerAtCall]
    IN  /\ run[r].pc \in {"idle", "done"}
        /\ failure_count < MaxFailures
        /\ UNCHANGED <<now, auditVars, teamVars, policyVars, jobVars>>
        /\ IF circuit_open /\ last_failure_time = NoTime
           THEN ExceptBranch(r, base, "TypeError")
           ELSE IF BreakerRejects(circuit_open, last_failure_time, now)
           THEN ExceptBranch(r, base, "Circuit breaker is open")
           ELSE /\ circuit_open' = FALSE
                /\ failure_count' = (IF circuit_open THEN 0 ELSE failure_count)
                /\ opened_at' = (IF circuit_open THEN NoTime ELSE opened_at)
                /\ last_failure_time' = last_failure_time
                /\ just_reset' = "no"
                /\ run' = [run EXCEPT ![r] = StartAttempt(base, 1, 0)]

(***************************************************************************)
(* An awaited agent call returns within its deadline.  _run_with_retry     *)
(* returns the object; _run_agent_pipeline looks up to_agent_result on it  *)
(* and appends the AgentResult, then starts the next step or returns the   *)
(* list to run_triage, which builds the final decision, zeroes             *)
(* failure_count and returns success.  An AttributeError of the lookup     *)
(* leaves the pipeline and lands in run_triage's except branch.            *)
(***************************************************************************)
agent_returns(r, kind) ==
    LET me   == run[r]
        st   == PipelineSteps[me.step]
        got  == [me EXCEPT !.typed = Append(me.typed, [cls |-> st.cls, kind |-> kind])]
        res  == Append(me.agent_results, [agent_name |-> st.agent, kind |-> kind])
        more == [got EXCEPT !.agent_results = res]
    IN  /\ me.pc = "agent_call"
        /\ now <= me.deadline
        /\ UNCHANGED <<now, auditVars, teamVars, policyVars, jobVars>>
        /\ IF ~HasAttr(st.cls, "to_agent_result")
           THEN ExceptBranch(r, got, "AttributeError: to_agent_result")
           ELSE IF me.step < Len(PipelineSteps)
           THEN /\ run' = [run EXCEPT ![r] = StartAttempt(more, me.step + 1, 0)]
                /\ UNCHANGED <<failure_count, last_failure_time, circuit_open,
                               opened_at, just_reset>>
           ELSE /\ failure_count' = 0
                /\ just_reset' = "no"
                /\ run' = [run EXCEPT ![r] =
                             [more EXCEPT !.pc = "done", !.step = 0,
                                          !.attempt = 0, !.deadline = NoTime,
                                          !.ret = SuccessResult(res),
                                          !.open_after = circuit_open]]
                /\ UNCHANGED <<last_failure_time, circuit_open, opened_at>>

(***************************************************************************)
(* asyncio.wait_for cuts the agent call off at its deadline.  The retry    *)
(* loop records the timeout and either sleeps before the next attempt or,  *)
(* after the last attempt, raises into run_triage's except branch.         *)
(***************************************************************************)
agent_timeout(r) ==
    LET me  == run[r]
        e   == "Agent timeout"
        got == [me EXCEPT !.last_exception = e]
    IN  /\ me.pc = "agent_call"
        /\ now >= me.deadline
        /\ UNCHANGED <<now, auditVars, teamVars, policyVars, jobVars>>
        /\ IF me.attempt < max_retries - 1
           THEN /\ run' = [run EXCEPT ![r] =
                             [got EXCEPT !.pc = "backoff",
                                         !.deadline = NoTime,
                                         !.slept = @ + wait_time(me.attempt)]]
                /\ UNCHANGED <<failure_count, last_failure_time, circuit_open,
                               opened_at, just_reset>>
           ELSE ExceptBranch(r, got, e)

(***************************************************************************)
(* asyncio.sleep(wait_time) is over: the next attempt of the same step.    *)
(* The sleeps (1, 2, 4 seconds) are shorter than one step of the clock, so *)
(* the clock reading may or may not have changed.                          *)
(***************************************************************************)
backoff_done(r) ==
    LET me == run[r]
    IN  /\ me.pc = "backoff"
        /\ run' = [run EXCEPT ![r] = StartAttempt(me, me.step, me.attempt + 1)]
        /\ UNCHANGED <<failure_count, last_failure_time, circuit_open, now,
                       opened_at, just_reset, auditVars, teamVars,
                       policyVars, jobVars>>

\* variant: the reset zeroes the counter and forgets circuit_open
reset_circuit_breaker_KeepsOpen ==
    /\ failure_count' = 0
    /\ last_failure_time' = NoTime
    /\ just_reset' = (IF circuit_open THEN "open" ELSE "closed")
    /\ UNCHANGED <<circuit_open, opened_at, now, run, auditVars, teamVars,
                   policyVars, jobVars>>

(***************************************************************************)
(* reset_circuit_breaker                                                   *)
(***************************************************************************)
reset_circuit_breaker ==
    /\ circuit_open' = FALSE
    /\ failure_count' = 0
    /\ last_failure_time' = NoTime
    /\ opened_at' = NoTime
    /\ just_reset' = (IF circuit_open THEN "open" ELSE "closed")
    /\ UNCHANGED <<now, run, auditVars, teamVars, policyVars, jobVars>>

(***************************************************************************)
(* time.time() advances.                                                   *)
(***************************************************************************)
Tick ==
    /\ now + TickStep <= MaxTime
    /\ now' = now + TickStep
    /\ UNCHANGED <<orchVars, auditVars, teamVars, policyVars, jobVars>>

Next ==
    \/ \E r \in Runs : run_triage(r)
    \/ \E r \in Runs, kind \in AgentReturnKinds : agent_returns(r, kind)
    \/ \E r \in Runs : agent_timeout(r)
    \/ \E r \in Runs : backoff_done(r)
    \/ reset_circuit_breaker
    \/ Tick

Spec == Init /\ [][Next]_vars

TypeOK ==
    /\ failure_count \in 0..(MaxFailures + NumRuns)
    /\ circuit_open \in BOOLEAN
    /\ now \in 0..MaxTime

(***************************************************************************)
(* Properties of the orchestrator, checked under Spec.                     *)
(***************************************************************************)
Done(r) == run[r].pc = "done"

\* the run got past the breaker check and entered the pipeline
Admitted(r) == run[r].invoked # <<>>

\* the step that takes run r to its return
Returns(r) == run[r].pc # "done" /\ run'[r].pc = "done"

AgentNames(agent_results) ==
    [i \in 1..Len(agent_results) |-> agent_results[i].agent_name]

AllAgentNames == [i \in 1..Len(PipelineSteps) |-> PipelineSteps[i].agent]

AllAgentFuncs == [i \in 1..Len(PipelineSteps) |-> PipelineSteps[i].func]

IsPrefix(s, t) == Len(s) <= Len(t) /\ \A i \in 1..Len(s) : s[i] = t[i]

FinalDecisionKeys ==
    {"case_type", "urgency", "risk_level", "risk_score", "recommended_team",
     "sla_target_hours", "escalation_flag", "suggested_actions",
     "missing_fields", "compliance_issues", "pii_detected",
     "overall_confidence"}

\* C1: every returned run_triage call carries either success with exactly
\* one result of each of the five agents and a populated final decision, or
\* failure with an error message, no agent results and an empty final
\* decision; never some of the agent results.
C1_AllOrNothing ==
    \A r \in Runs :
        Done(r) =>
            LET o == run[r].ret
            IN  \/ /\ o.success
                   /\ AgentNames(o.agent_results) = AllAgentNames
                   /\ DOMAIN o.final_decision = FinalDecisionKeys
                \/ /\ ~o.success
                   /\ o.error_message # NoneStr
                   /\ Len(o.agent_results) = 0
                   /\ DOMAIN o.final_decision = {}

\* an agent returned its result to the pipeline and the run still returned
\* the failure payload with nothing of it
C1_Witness ==
    \E r \in Runs :
        /\ Done(r)
        /\ Len(run[r].typed) > 0
        /\ ~run[r].ret.success
        /\ Len(run[r].ret.agent_results) = 0

\* C2: in one run the agents are invoked in the order classify, score_risk,
\* route_case, provide_support, process_compliance, each after its
\* predecessors have returned their results, and a run in which no agent
\* call ran out of retries invokes all five (process_compliance with the
\* four earlier results).
C2_PipelineOrder ==
    \A r \in Runs :
        /\ IsPrefix(run[r].invoked, AllAgentFuncs)
        /\ Admitted(r) /\ ~Done(r) => Len(run[r].typed) = Len(run[r].invoked) - 1
        /\ (Done(r) /\ Admitted(r) /\ run[r].ret.error_message # "Agent timeout")
              => /\ run[r].invoked = AllAgentFuncs
                 /\ Len(run[r].typed) = Len(PipelineSteps)

\* C3: every failed return adds one to failure_count and the breaker is open
\* once failure_count has reached circuit_breaker_threshold; a call that
\* finds the breaker open before circuit_breaker_timeout has elapsed returns
\* a failure and invokes no agent.
C3_BreakerOpensThenRejects ==
    /\ [](failure_count >= circuit_breaker_threshold => circuit_open)
    /\ [](\A r \in Runs :
            (run[r].pc # "idle" /\ run[r].started = "open")
                => /\ Done(r)
                   /\ ~run[r].ret.success
                   /\ run[r].invoked = <<>>)
    /\ [][\A r \in Runs :
            (Returns(r) /\ ~run'[r].ret.success)
                => failure_count' = failure_count + 1]_vars

\* the call after the threshold-th consecutive failure: rejected by the open
\* breaker, no agent invoked
C3_Witness ==
    \E r \in Runs :
        /\ Done(r)
        /\ run[r].started = "open"
        /\ run[r].ret.error_message = "Circuit breaker is open"
        /\ run[r].invoked = <<>>
        /\ failure_count = circuit_breaker_threshold + 1

\* C4: a call made at least circuit_breaker_timeout seconds after the breaker
\* opened is admitted and runs the agent pipeline.
C4_AdmittedAfterTimeout ==
    \A r \in Runs :
        (run[r].pc # "idle" /\ run[r].started = "open_timeout_elapsed")
            => Admitted(r)

\* C5: a trial call (admitted with the breaker open) that fails leaves the
\* breaker open.
C5_FailedTrialReopens ==
    \A r \in Runs :
        ( /\ Done(r)
          /\ run[r].started = "open_timeout_elapsed"
          /\ Admitted(r)
          /\ ~run[r].ret.success )
            => run[r].open_after

\* C6: failure_count is 0 right after every successful return and right
\* after every reset_circuit_breaker; the reset also closes the breaker, and
\* the call that follows it enters the agent pipeline.
C6_ResetAndSuccessZero ==
    /\ [](just_reset # "no" => failure_count = 0 /\ ~circuit_open)
    /\ [](\A r \in Runs :
            (run[r].pc # "idle" /\ run[r].started \in {"reset_open", "reset_closed"})
                => Admitted(r))
    /\ [][\A r \in Runs :
            (Returns(r) /\ run'[r].ret.success) => failure_count' = 0]_vars

\* the breaker was open, was reset, and the next call is in its first agent
\* call
C6_Witness ==
    \E r \in Runs :
        /\ run[r].started = "reset_open"
        /\ run[r].pc = "agent_call"
        /\ run[r].invoked = <<"classify">>

\* C7: a run in which an agent returned its safe default and no agent call
\* ran out of retries returns success with all five agent results and does
\* not count a failure.
C7_SoftFailureSucceeds ==
    \A r \in Runs :
        ( /\ Done(r)
          /\ \E i \in 1..Len(run[r].typed) : run[r].typed[i].kind = "default"
          /\ run[r].ret.error_message # "Agent timeout" )
            => /\ run[r].ret.success
               /\ AgentNames(run[r].ret.agent_results) = AllAgentNames

(***************************************************************************)
(* AuditRepository.create_audit_log: the row is built from the payload's   *)
(* fields and the hash computed now; previous_hash is not among them and   *)
(* the column stays NULL; created_at defaults to utcnow().                 *)
(***************************************************************************)
create_audit_log(audit_data) ==
    /\ Len(audit_logs) < MaxAuditLogs
    /\ audit_logs' = Append(audit_logs,
          [ action |-> audit_data.action,
            resource_type |-> audit_data.resource_type,
            resource_id |-> audit_data.resource_id,
            details |-> audit_data.details,
            previous_hash |-> NoneStr,
            current_hash |-> _calculate_hash(audit_data, now),
            created_at |-> now ])
    /\ UNCHANGED <<orchVars, now, hash_calls, teamVars, policyVars, jobVars>>

(***************************************************************************)
(* A caller computes generate_audit_hash(data, previous_hash).             *)
(***************************************************************************)
call_generate_audit_hash(data, previous_hash) ==
    /\ Cardinality(hash_calls) < MaxHashCalls
    /\ hash_calls' = hash_calls \cup
          { [ data |-> data, previous_hash |-> previous_hash,
              hash |-> generate_audit_hash(data, previous_hash, now) ] }
    /\ hash_calls' # hash_calls
    /\ UNCHANGED <<orchVars, now, audit_logs, teamVars, policyVars, jobVars>>

NextAudit ==
    \/ \E d \in AuditData : create_audit_log(d)
    \/ \E d \in HashData, p \in PreviousHashes : call_generate_audit_hash(d, p)
    \/ Tick

SpecAudit == Init /\ [][NextAudit]_vars

(***************************************************************************)
(* RouterAgent.update_team_load                                            *)
(***************************************************************************)
Max(a, b) == IF a >= b THEN a ELSE b

\* variant: the load is assigned load_change instead of increased by it
TeamLoadsAfter_Assign(loads, team, load_change) ==
    IF team \in DOMAIN loads
    THEN [loads EXCEPT ![team] = Max(0, load_change)]
    ELSE loads

\* the current_load of every team after update_team_load(team, load_change)
TeamLoadsAfter(loads, team, load_change) ==
    IF team \in DOMAIN loads
    THEN [loads EXCEPT ![team] = Max(0, @ + load_change)]
    ELSE loads

update_team_load(team, load_change) ==
    /\ updates < MaxUpdates
    /\ updates' = updates + 1
    /\ team \in DOMAIN team_capabilities
    /\ team_capabilities' = TeamLoadsAfter(team_capabilities, team, load_change)
    /\ UNCHANGED <<orchVars, now, auditVars, team_rows, pairVars, routed, agentVars,
                   policyVars, jobVars>>

(***************************************************************************)
(* TeamRepository.update_team_load: UPDATE teams SET current_load =        *)
(* current_load + :load_change WHERE id = :team_id                         *)
(***************************************************************************)
repo_update_team_load(team_id, load_change) ==
    /\ updates < MaxUpdates
    /\ updates' = updates + 1
    /\ team_rows' = [team_rows EXCEPT ![team_id] = @ + load_change]
    /\ UNCHANGED <<orchVars, now, auditVars, team_capabilities, pairVars, routed, agentVars,
                   policyVars, jobVars>>

NextTeams ==
    \/ \E t \in TeamNames, c \in LoadChanges : update_team_load(t, c)
    \/ \E t \in TeamRowNames, c \in LoadChanges : repo_update_team_load(t, c)

SpecTeams == Init /\ [][NextTeams]_vars

(***************************************************************************)
(* Acquire / release pairs on the router's team table.  update_team_load   *)
(* has no await in it, so each call is one step; the pairs of different    *)
(* runs interleave call by call.                                           *)
(***************************************************************************)
NoPairStarted == \A p \in Pairs : pairs[p].pc = "idle"

\* update_team_load(team, load_change) before any pair: the loads the pairs
\* start from
preload_team(team, load_change) ==
    /\ NoPairStarted
    /\ updates < MaxPreloads
    /\ updates' = updates + 1
    /\ team_capabilities' = TeamLoadsAfter(team_capabilities, team, load_change)
    /\ base_load' = team_capabilities'
    /\ UNCHANGED <<orchVars, now, auditVars, team_rows, pairs, routed, agentVars,
                   policyVars, jobVars>>

\* acquire: update_team_load(team, +1)
acquire_team(p, team) ==
    /\ pairs[p].pc \in {"idle", "released"}
    /\ pairs' = [pairs EXCEPT ![p] = [pc |-> "held", team |-> team]]
    /\ team_capabilities' = TeamLoadsAfter(team_capabilities, team, 1)
    /\ UNCHANGED <<orchVars, now, auditVars, team_rows, updates, base_load, routed, agentVars,
                   policyVars, jobVars>>

\* release: update_team_load(team, -1) on the team acquired
release_team(p) ==
    /\ pairs[p].pc = "held"
    /\ pairs' = [pairs EXCEPT ![p].pc = "released"]
    /\ team_capabilities' =
          TeamLoadsAfter(team_capabilities, pairs[p].team, -1)
    /\ UNCHANGED <<orchVars, now, auditVars, team_rows, updates, base_load, routed, agentVars,
                   policyVars, jobVars>>

NextPairs ==
    \/ \E t \in TeamArgs, c \in LoadChanges : preload_team(t, c)
    \/ \E p \in Pairs, t \in TeamArgs : acquire_team(p, t)
    \/ \E p \in Pairs : release_team(p)

SpecPairs == Init /\ [][NextPairs]_vars

(***************************************************************************)
(* RouterAgent.  Team names are written without the hyphen: Tier1 is       *)
(* "Tier-1", Tier2 "Tier-2", FraudReview "Fraud-Review".  Confidences are  *)
(* in 1/10000.                                                             *)
(***************************************************************************)
\* routing_policies, in the order of the dict; atoms are the clauses of the
\* condition string
routing_policies ==
    << [name |-> "high_risk_escalation",
        atoms |-> {"risk_level == 'high'", "risk_level == 'extreme'"},
        action |-> "escalate", team |-> "Escalation", sla_hours |-> 4],
       [name |-> "fraud_review",
        atoms |-> {"case_type == 'fraud_review'", "fraud_indicators > 0"},
        action |-> "route", team |-> "FraudReview", sla_hours |-> 24],
       [name |-> "legal_cases",
        atoms |-> {"case_type == 'legal_intake'", "legal_indicators > 0"},
        action |-> "route", team |-> "Specialist", sla_hours |-> 48],
       [name |-> "urgent_cases",
        atoms |-> {"urgency == 'critical'", "urgency == 'high'"},
        action |-> "route", team |-> "Tier1", sla_hours |-> 2],
       [name |-> "standard_processing",
        atoms |-> {"risk_level == 'low'", "urgency == 'low'"},
        action |-> "route", team |-> "Tier2", sla_hours |-> 72] >>

\* _evaluate_policy_condition: the six substring tests, nothing else
_evaluate_policy_condition(atoms, context) ==
    \/ "risk_level == 'high'" \in atoms /\ context.risk_level = "high"
    \/ "risk_level == 'extreme'" \in atoms /\ context.risk_level = "extreme"
    \/ "case_type == 'fraud_review'" \in atoms /\ context.case_type = "fraud_review"
    \/ "urgency == 'critical'" \in atoms /\ context.urgency = "critical"
    \/ "urgency == 'high'" \in atoms /\ context.urgency = "high"
    \/ "fraud_indicators > 0" \in atoms /\ context.fraud_indicators > 0

\* the first policy, in dict order, whose condition evaluates true (0: none)
FirstPolicy(context) ==
    LET hits == {i \in 1..Len(routing_policies) :
                    _evaluate_policy_condition(routing_policies[i].atoms, context)}
    IN  IF hits = {} THEN 0
        ELSE CHOOSE i \in hits : \A j \in hits : i <= j

\* _apply_business_rules
_apply_business_rules(classification_result, risk_result) ==
    LET context == [ case_type |-> classification_result.case_type,
                     urgency |-> classification_result.urgency,
                     risk_level |-> risk_result.risk_level,
                     fraud_indicators |-> risk_result.risk_factors ]
        i == FirstPolicy(context)
    IN  IF i # 0
        THEN [ team |-> routing_policies[i].team,
               sla_hours |-> routing_policies[i].sla_hours,
               escalation |-> routing_policies[i].action = "escalate",
               confidence |-> 9000,
               policy_applied |-> routing_policies[i].name ]
        ELSE IF risk_result.risk_level \in {"high", "extreme"}
        THEN [ team |-> "Specialist", sla_hours |-> 48, escalation |-> FALSE,
               confidence |-> 7000, policy_applied |-> "default_high_risk" ]
        ELSE IF classification_result.urgency \in {"critical", "high"}
        THEN [ team |-> "Tier1", sla_hours |-> 2, escalation |-> FALSE,
               confidence |-> 7000, policy_applied |-> "default_high_urgency" ]
        ELSE [ team |-> "Tier2", sla_hours |-> 72, escalation |-> FALSE,
               confidence |-> 7000, policy_applied |-> "default_standard" ]

\* _get_opa_decision: the "result" dict of a 200 response, else None.  Of
\* the dict the team key is modelled (NoneStr: no such key).
_get_opa_decision(response) ==
    IF response.status = 200
    THEN [is_none |-> FALSE, team |-> response.team]
    ELSE [is_none |-> TRUE, team |-> NoneStr]

\* _combine_routing_decisions
_combine_routing_decisions(opa_result, business_result) ==
    IF opa_result.is_none \/ opa_result.team = NoneStr THEN business_result
    ELSE IF opa_result.team \in TeamNames
    THEN [ team |-> opa_result.team,
           sla_hours |-> business_result.sla_hours,
           escalation |-> business_result.escalation,
           confidence |-> 9500,
           policy_applied |-> "opa_policy" ]
    ELSE business_result

\* the alternatives table of _find_alternative_team
alternatives ==
    [ Tier1 |-> <<"Tier2", "Specialist">>,
      Tier2 |-> <<"Tier1", "Specialist">>,
      Specialist |-> <<"Tier1", "Tier2">>,
      FraudReview |-> <<"Specialist", "Escalation">>,
      Escalation |-> <<"Specialist", "Tier1">> ]

\* variant: an alternative counts as free below 90% of its capacity
_find_alternative_team_Ninety(original_team, loads) ==
    LET alts == alternatives[original_team]
        free == {i \in 1..Len(alts) :
                    10 * loads[alts[i]] < 9 * TeamCapacity[alts[i]]}
    IN  IF free = {} THEN "Tier2"
        ELSE alts[CHOOSE i \in free : \A j \in free : i <= j]

\* _find_alternative_team: the first alternative below 80% of its capacity,
\* else Tier-2
_find_alternative_team(original_team, loads) ==
    LET alts == alternatives[original_team]
        free == {i \in 1..Len(alts) :
                    10 * loads[alts[i]] < 8 * TeamCapacity[alts[i]]}
    IN  IF free = {} THEN "Tier2"
        ELSE alts[CHOOSE i \in free : \A j \in free : i <= j]

\* _validate_team_capacity
_validate_team_capacity(routing_result, loads) ==
    LET team == routing_result.team
    IN  IF team \notin TeamNames
        THEN [routing_result EXCEPT !.team = "Tier2",
                                    !.confidence = (@ * 8) \div 10]
        ELSE IF 10 * loads[team] >= 9 * TeamCapacity[team]
        THEN [routing_result EXCEPT
                 !.team = _find_alternative_team(team, loads),
                 !.confidence = (@ * 9) \div 10]
        ELSE routing_result

\* the attributes of a Python dict that the code could look up by name
DictAttrs == {"get", "keys", "values", "items", "update", "pop", "copy"}

\* the RoutingResult of route_case's except branch
SafeDefaultRouting ==
    [ recommended_team |-> "Tier2", sla_target_hours |-> 72,
      escalation_flag |-> FALSE, confidence |-> 5000,
      policy_applied |-> "default" ]

\* route_case: the try body up to the dict final_result, then the
\* RoutingResult built from final_result.recommended_team and the other
\* attribute reads; a failed lookup raises into the except branch
route_case(classification_result, risk_result, response, loads) ==
    LET opa_result == _get_opa_decision(response)
        business_result ==
            _apply_business_rules(classification_result, risk_result)
        final_result ==
            _validate_team_capacity(
                _combine_routing_decisions(opa_result, business_result), loads)
    IN  IF {"recommended_team", "sla_target_hours", "escalation_flag",
            "confidence", "policy_applied"} \subseteq DictAttrs
        THEN [ recommended_team |-> final_result.team,
               sla_target_hours |-> final_result.sla_hours,
               escalation_flag |-> final_result.escalation,
               confidence |-> final_result.confidence,
               policy_applied |-> final_result.policy_applied ]
        ELSE SafeDefaultRouting

\* the arguments of route_case tried, and the answers of the OPA service
ClassificationResults ==
    [ case_type : {"insurance_claim", "fraud_review"},
      urgency : {"low", "high"} ]

RiskResults ==
    [ risk_level : {"low", "medium", "high", "extreme"},
      risk_factors : {0, 1} ]

OpaResponses ==
    { [status |-> 500, team |-> NoneStr],
      [status |-> 200, team |-> NoneStr],
      [status |-> 200, team |-> "FraudReview"],
      [status |-> 200, team |-> "Unknown"] }

\* one route_case call on the router, with the loads as they are
call_route_case(classification_result, risk_result, response) ==
    /\ routed' = << [ classification_result |-> classification_result,
                      risk_result |-> risk_result,
                      response |-> response,
                      result |-> route_case(classification_result, risk_result,
                                            response, team_capabilities) ] >>
    /\ UNCHANGED <<orchVars, now, auditVars, team_capabilities, team_rows,
                   updates, pairVars, agentVars, policyVars, jobVars>>

NextRouter ==
    \/ \E t \in TeamNames : update_team_load(t, LoadBurst)
    \/ \E c \in ClassificationResults, k \in RiskResults, o \in OpaResponses :
          call_route_case(c, k, o)

SpecRouter == Init /\ [][NextRouter]_vars

\* the policy evaluator supplied a team
OpaSuppliedTeam(response) ==
    LET opa_result == _get_opa_decision(response)
    IN  ~opa_result.is_none /\ opa_result.team # NoneStr

\* C12: for a case whose risk_level is high or extreme, with no team
\* supplied by the policy evaluator, route_case recommends Escalation,
\* unless Escalation's load is at least 0.9 of its capacity, and then it
\* recommends one of Escalation's alternatives, Specialist or Tier-1.
C12_HighRiskToEscalation ==
    [][\A c \in ClassificationResults, k \in RiskResults, o \in OpaResponses :
          ( /\ call_route_case(c, k, o)
            /\ k.risk_level \in {"high", "extreme"}
            /\ ~OpaSuppliedTeam(o) )
              => LET team == routed'[1].result.recommended_team
                 IN  IF 10 * team_capabilities["Escalation"]
                            < 9 * TeamCapacity["Escalation"]
                     THEN team = "Escalation"
                     ELSE team \in {"Specialist", "Tier1"}]_vars

(***************************************************************************)
(* The agent entry points as their callers see them.  Each is one try /    *)
(* except Exception: the try body computes a result or raises, the except  *)
(* branch returns the safe default.  Scores and confidences are in         *)
(* 1/10000.                                                                *)
(***************************************************************************)
\* what a call hands to its caller: a value returned, or an exception raised
Returned(value) == [raised |-> FALSE, value |-> value]
Raised(e) == [raised |-> TRUE, value |-> e]

\* the ClassificationResult of classify's except branch
SafeDefaultClassification ==
    [ case_type |-> "insurance_claim", urgency |-> "medium",
      confidence |-> 5000, missing_fields |-> <<"classification_error">> ]

\* variant: the except branch logs and raises again
classify_Reraise(final_result, body_raises) ==
    IF body_raises THEN Raised("Classification failed")
    ELSE Returned(final_result)

\* classify: final_result is what the try body computes, unless it raises
classify(final_result, body_raises) ==
    IF body_raises THEN Returned(SafeDefaultClassification)
    ELSE Returned(final_result)

\* a case_data amount that float() rejects
NotANumber == -1

\* _score_to_risk_level
_score_to_risk_level(risk_score, thresholds) ==
    IF risk_score >= thresholds.high THEN "high"
    ELSE IF risk_score >= thresholds.medium THEN "medium"
    ELSE "low"

Min(a, b) == IF a <= b THEN a ELSE b

\* _score_with_rules; case_data.fraud_text / complexity_text: the text holds
\* a keyword of risk_patterns["fraud_indicators" / "complexity_indicators"]
_score_with_rules(case_data, classification_result, thresholds) ==
    LET case_type == classification_result.case_type
        urgency == classification_result.urgency
        amount == case_data.amount
        missing == classification_result.missing_fields
        s1 == IF case_type = "fraud_review" THEN 4000
              ELSE IF case_type = "legal_intake" THEN 3000
              ELSE IF case_type = "bank_dispute" THEN 2500 ELSE 0
        f1 == IF case_type = "fraud_review" THEN <<"fraud_review_case">>
              ELSE IF case_type = "legal_intake" THEN <<"legal_case">>
              ELSE IF case_type = "bank_dispute" THEN <<"bank_dispute">>
              ELSE <<>>
        s2 == IF urgency = "critical" THEN 3000
              ELSE IF urgency = "high" THEN 2000 ELSE 0
        f2 == IF urgency = "critical" THEN <<"critical_urgency">>
              ELSE IF urgency = "high" THEN <<"high_urgency">> ELSE <<>>
        s3 == IF amount > 10000 THEN 2000
              ELSE IF amount > 5000 THEN 1000 ELSE 0
        f3 == IF amount > 10000 THEN <<"high_amount">>
              ELSE IF amount > 5000 THEN <<"medium_amount">> ELSE <<>>
        s4 == IF missing > 3 THEN 1500 ELSE IF missing > 0 THEN 500 ELSE 0
        f4 == IF missing > 3 THEN <<"many_missing_fields">>
              ELSE IF missing > 0 THEN <<"missing_fields">> ELSE <<>>
        s5 == IF case_data.fraud_text THEN 2000 ELSE 0
        f5 == IF case_data.fraud_text THEN <<"fraud_indicators">> ELSE <<>>
        s6 == IF case_data.complexity_text THEN 1000 ELSE 0
        f6 == IF case_data.complexity_text THEN <<"complexity_indicators">>
              ELSE <<>>
        risk_score == Min(10000, s1 + s2 + s3 + s4 + s5 + s6)
    IN  [ risk_score |-> risk_score,
          risk_level |-> _score_to_risk_level(risk_score, thresholds),
          confidence |-> 7000,
          risk_factors |-> f1 \o f2 \o f3 \o f4 \o f5 \o f6 ]

\* no ML model loaded, or _score_with_ml failed: ml_result is None
NoMl == -1

\* _combine_risk_scores; ml_score is predict_proba's risk score, or NoMl
_combine_risk_scores(ml_score, rule_result, thresholds) ==
    IF ml_score = NoMl THEN rule_result
    ELSE LET combined_score == (ml_score * 7 + rule_result.risk_score * 3) \div 10
         IN  [ risk_score |-> combined_score,
               risk_level |-> _score_to_risk_level(combined_score, thresholds),
               confidence |-> (9000 * 7 + rule_result.confidence * 3) \div 10,
               risk_factors |-> rule_result.risk_factors ]

\* the RiskScoreResult of score_risk's except branch
SafeDefaultRisk ==
    [ risk_score |-> 5000, risk_level |-> "medium", confidence |-> 5000,
      risk_factors |-> <<"scoring_error">> ]

\* score_risk: _extract_features raises on an amount float() rejects
score_risk(case_data, classification_result, ml_score, thresholds) ==
    IF case_data.amount = NotANumber
    THEN Returned(SafeDefaultRisk)
    ELSE Returned(_combine_risk_scores(ml_score,
                      _score_with_rules(case_data, classification_result,
                                        thresholds),
                      thresholds))

\* the DecisionSupportResult of provide_support's except branch
SafeDefaultSupport ==
    [ suggested_actions |-> <<"Review case manually">>, confidence |-> 5000 ]

\* DecisionSupportAgent._calculate_confidence
_calculate_confidence(classification_conf, risk_conf, routing_conf) ==
    Min(10000,
        (classification_conf * 4 + risk_conf * 4 + routing_conf * 2) \div 10)

\* provide_support: suggested_actions is what the try body generates,
\* unless it raises
provide_support(suggested_actions, confidences, body_raises) ==
    IF body_raises THEN Returned(SafeDefaultSupport)
    ELSE Returned([ suggested_actions |-> suggested_actions,
                    confidence |-> _calculate_confidence(confidences[1],
                                       confidences[2], confidences[3]) ])

(***************************************************************************)
(* Text and regular expressions.  A str is a sequence of one-character     *)
(* strings.  A pattern is the syntax tree of the regular expression, and   *)
(* Ends gives the positions where a match starting at position i may end,  *)
(* in the order the backtracking matcher of re tries them (greedy          *)
(* quantifiers take the longest repetition first, alternatives are tried   *)
(* left to right); the match re finds is the first of them.  Every         *)
(* pattern is compiled with re.IGNORECASE: a literal letter stands for     *)
(* both of its cases.                                                      *)
(***************************************************************************)
Digits == {"0", "1", "2", "3", "4", "5", "6", "7", "8", "9"}
LowerCase ==
  <<"a", "b", "c", "d", "e", "f", "g", "h", "i", "j", "k", "l", "m",
    "n", "o", "p", "q", "r", "s", "t", "u", "v", "w", "x", "y", "z">>
UpperCase ==
  <<"A", "B", "C", "D", "E", "F", "G", "H", "I", "J", "K", "L", "M",
    "N", "O", "P", "Q", "R", "S", "T", "U", "V", "W", "X", "Y", "Z">>
Letters == {LowerCase[i] : i \in 1..26} \cup {UpperCase[i] : i \in 1..26}
Whitespace == {" ", "\t", "\n", "\r", "\f"}
WordChars == Letters \cup Digits \cup {"_"}

\* Both cases of a character (re.IGNORECASE).
BothCases(c) ==
  IF \E i \in 1..26 : c \in {LowerCase[i], UpperCase[i]}
  THEN LET i == CHOOSE j \in 1..26 : c \in {LowerCase[j], UpperCase[j]}
       IN  {LowerCase[i], UpperCase[i]}
  ELSE {c}

\* str.lower()
Lower(s) ==
  [i \in 1..Len(s) |->
     IF \E j \in 1..26 : UpperCase[j] = s[i]
     THEN LowerCase[CHOOSE j \in 1..26 : UpperCase[j] = s[i]]
     ELSE s[i]]

\* sub in s
Occurs(sub, s) ==
  \E i \in 0..(Len(s) - Len(sub)) : SubSeq(s, i + 1, i + Len(sub)) = sub

\* The quantifiers +, * and {n,} have no upper limit.
MAXREPEAT == 999

Cls(set) == [k |-> "cls", set |-> set, parts |-> <<>>, min |-> 0, max |-> 0]
Chr(c) == Cls(BothCases(c))
WordBoundary == [k |-> "wb", set |-> {}, parts |-> <<>>, min |-> 0, max |-> 0]
Cat(parts) == [k |-> "cat", set |-> {}, parts |-> parts, min |-> 0, max |-> 0]
Alt(parts) == [k |-> "alt", set |-> {}, parts |-> parts, min |-> 0, max |-> 0]
Rep(node, min, max) ==
  [k |-> "rep", set |-> {}, parts |-> <<node>>, min |-> min, max |-> max]
Lit(chars) == Cat([i \in 1..Len(chars) |-> Chr(chars[i])])

\* \b at position i of s: exactly one of the characters on its two sides
\* is a word character.
AtWordBoundary(s, i) ==
  (i > 0 /\ s[i] \in WordChars) # (i < Len(s) /\ s[i + 1] \in WordChars)

RECURSIVE Ends(_, _, _)
RECURSIVE EndsFromAll(_, _, _, _)
RECURSIVE CatEnds(_, _, _, _)
RECURSIVE AltEnds(_, _, _, _)
RECURSIVE RepEnds(_, _, _, _, _, _)
RECURSIVE RepMore(_, _, _, _, _, _, _)
\* The ends of re from each of the starts, in order.
EndsFromAll(re, s, starts, j) ==
  IF j > Len(starts) THEN <<>>
  ELSE Ends(re, s, starts[j]) \o EndsFromAll(re, s, starts, j + 1)

CatEnds(parts, n, s, starts) ==
  IF n > Len(parts) \/ starts = <<>> THEN starts
  ELSE CatEnds(parts, n + 1, s, EndsFromAll(parts[n], s, starts, 1))

AltEnds(parts, n, s, i) ==
  IF n > Len(parts) THEN <<>>
  ELSE Ends(parts[n], s, i) \o AltEnds(parts, n + 1, s, i)

\* One more repetition from each of the ends of the n-th one.
RepMore(node, min, max, s, ends, j, n) ==
  IF j > Len(ends) THEN <<>>
  ELSE RepEnds(node, min, max, s, ends[j], n)
         \o RepMore(node, min, max, s, ends, j + 1, n)

RepEnds(node, min, max, s, i, n) ==
  (IF n < max THEN RepMore(node, min, max, s, Ends(node, s, i), 1, n + 1)
              ELSE <<>>)
    \o (IF n >= min THEN <<i>> ELSE <<>>)

Ends(re, s, i) ==
  CASE re.k = "cls" ->
         IF i < Len(s) /\ s[i + 1] \in re.set THEN <<i + 1>> ELSE <<>>
    [] re.k = "wb" -> IF AtWordBoundary(s, i) THEN <<i>> ELSE <<>>
    [] re.k = "cat" -> CatEnds(re.parts, 1, s, <<i>>)
    [] re.k = "alt" -> AltEnds(re.parts, 1, s, i)
    [] re.k = "rep" -> RepEnds(re.parts[1], re.min, re.max, s, i, 0)

\* re.search(pattern, string) is not None
RECURSIVE SearchFrom(_, _, _)
SearchFrom(pattern, string, pos) ==
  /\ pos <= Len(string)
  /\ \/ Ends(pattern, string, pos) # <<>>
     \/ SearchFrom(pattern, string, pos + 1)

re_search(pattern, string) == SearchFrom(pattern, string, 0)

\* re.sub(pattern, repl, string): the leftmost non-overlapping matches
\* are replaced by repl.
RECURSIVE SubFrom(_, _, _, _)
SubFrom(pattern, repl, string, pos) ==
  IF pos >= Len(string) THEN <<>>
  ELSE LET ends == Ends(pattern, string, pos)
       IN  IF ends # <<>> /\ ends[1] > pos
           THEN repl \o SubFrom(pattern, repl, string, ends[1])
           ELSE <<string[pos + 1]>> \o SubFrom(pattern, repl, string, pos + 1)

re_sub(pattern, repl, string) == SubFrom(pattern, repl, string, 0)

(***************************************************************************)
(* The PII patterns of ComplianceAgent and of PIIDetectionMiddleware (the  *)
(* same seven, in the same order) and their replacement tokens.            *)
(***************************************************************************)
Digit == Cls(Digits)
SpaceOrDash == Cls(Whitespace \cup {"-"})
Optional(node) == Rep(node, 0, 1)

\* \b\d{3}-\d{2}-\d{4}\b
ssn_pattern ==
  Cat(<<WordBoundary, Rep(Digit, 3, 3), Chr("-"), Rep(Digit, 2, 2), Chr("-"),
        Rep(Digit, 4, 4), WordBoundary>>)

\* \b\d{4}[\s-]?\d{4}[\s-]?\d{4}[\s-]?\d{4}\b
credit_card_pattern ==
  Cat(<<WordBoundary, Rep(Digit, 4, 4), Optional(SpaceOrDash), Rep(Digit, 4, 4),
        Optional(SpaceOrDash), Rep(Digit, 4, 4), Optional(SpaceOrDash),
        Rep(Digit, 4, 4), WordBoundary>>)

\* \b\(?\d{3}\)?[\s-]?\d{3}[\s-]?\d{4}\b
phone_pattern ==
  Cat(<<WordBoundary, Optional(Chr("(")), Rep(Digit, 3, 3), Optional(Chr(")")),
        Optional(SpaceOrDash), Rep(Digit, 3, 3), Optional(SpaceOrDash),
        Rep(Digit, 4, 4), WordBoundary>>)

\* \b[A-Za-z0-9._%+-]+@[A-Za-z0-9.-]+\.[A-Z|a-z]{2,}\b
email_pattern ==
  Cat(<<WordBoundary,
        Rep(Cls(Letters \cup Digits \cup {".", "_", "%", "+", "-"}),
            1, MAXREPEAT),
        Chr("@"),
        Rep(Cls(Letters \cup Digits \cup {".", "-"}), 1, MAXREPEAT),
        Chr("."),
        Rep(Cls(Letters \cup {"|"}), 2, MAXREPEAT),
        WordBoundary>>)

\* \b\d+\s+[A-Za-z\s]+(?:Street|St|Avenue|Ave|Road|Rd|Boulevard|Blvd|Lane|
\* Ln|Drive|Dr)\b
address_pattern ==
  Cat(<<WordBoundary, Rep(Digit, 1, MAXREPEAT),
        Rep(Cls(Whitespace), 1, MAXREPEAT),
        Rep(Cls(Letters \cup Whitespace), 1, MAXREPEAT),
        Alt(<<Lit(<<"S", "t", "r", "e", "e", "t">>),
              Lit(<<"S", "t">>),
              Lit(<<"A", "v", "e", "n", "u", "e">>),
              Lit(<<"A", "v", "e">>),
              Lit(<<"R", "o", "a", "d">>),
              Lit(<<"R", "d">>),
              Lit(<<"B", "o", "u", "l", "e", "v", "a", "r", "d">>),
              Lit(<<"B", "l", "v", "d">>),
              Lit(<<"L", "a", "n", "e">>),
              Lit(<<"L", "n">>),
              Lit(<<"D", "r", "i", "v", "e">>),
              Lit(<<"D", "r">>)>>),
        WordBoundary>>)

\* \b\w{8,}\b
account_number_pattern_WordChars ==
  Cat(<<WordBoundary, Rep(Cls(WordChars), 8, MAXREPEAT), WordBoundary>>)

\* \b\d{8,}\b
account_number_pattern ==
  Cat(<<WordBoundary, Rep(Digit, 8, MAXREPEAT), WordBoundary>>)

\* \b(?:DOB|Date of Birth|Birth Date)[:\s]*\d{1,2}[/-]\d{1,2}[/-]\d{2,4}\b
date_of_birth_pattern ==
  Cat(<<WordBoundary,
        Alt(<<Lit(<<"D", "O", "B">>),
              Lit(<<"D", "a", "t", "e", " ", "o", "f", " ", "B", "i", "r", "t",
                    "h">>),
              Lit(<<"B", "i", "r", "t", "h", " ", "D", "a", "t", "e">>)>>),
        Rep(Cls({":"} \cup Whitespace), 0, MAXREPEAT),
        Rep(Digit, 1, 2), Cls({"/", "-"}), Rep(Digit, 1, 2), Cls({"/", "-"}),
        Rep(Digit, 2, 4), WordBoundary>>)

pii_patterns ==
  <<
    [pii_type |-> "ssn", pattern |-> ssn_pattern,
     replacement |->
       <<"[", "S", "S", "N", "_", "R", "E", "D", "A", "C", "T", "E", "D",
         "]">>],
    [pii_type |-> "credit_card", pattern |-> credit_card_pattern,
     replacement |->
       <<"[", "C", "C", "_", "R", "E", "D", "A", "C", "T", "E", "D",
         "]">>],
    [pii_type |-> "phone", pattern |-> phone_pattern,
     replacement |->
       <<"[", "P", "H", "O", "N", "E", "_", "R", "E", "D", "A", "C", "T",
         "E", "D", "]">>],
    [pii_type |-> "email", pattern |-> email_pattern,
     replacement |->
       <<"[", "E", "M", "A", "I", "L", "_", "R", "E", "D", "A", "C", "T",
         "E", "D", "]">>],
    [pii_type |-> "address", pattern |-> address_pattern,
     replacement |->
       <<"[", "A", "D", "D", "R", "E", "S", "S", "_", "R", "E", "D", "A",
         "C", "T", "E", "D", "]">>],
    [pii_type |-> "account_number", pattern |-> account_number_pattern,
     replacement |->
       <<"[", "A", "C", "C", "O", "U", "N", "T", "_", "R", "E", "D", "A",
         "C", "T", "E", "D", "]">>],
    [pii_type |-> "date_of_birth", pattern |-> date_of_birth_pattern,
     replacement |->
       <<"[", "D", "O", "B", "_", "R", "E", "D", "A", "C", "T", "E", "D",
         "]">>]
  >>

(***************************************************************************)
(* PIIDetectionMiddleware.redact_pii: a pattern found in the text given    *)
(* is substituted in the text redacted so far.                             *)
(***************************************************************************)
RECURSIVE redact_pii_from(_, _, _, _)
redact_pii_from(text, redacted_text, detected_types, n) ==
  IF n > Len(pii_patterns)
  THEN [redacted_text |-> redacted_text, detected_types |-> detected_types]
  ELSE LET pattern_info == pii_patterns[n]
       IN  IF re_search(pattern_info.pattern, text)
           THEN redact_pii_from(text,
                  re_sub(pattern_info.pattern, pattern_info.replacement,
                         redacted_text),
                  Append(detected_types, pattern_info.pii_type), n + 1)
           ELSE redact_pii_from(text, redacted_text, detected_types, n + 1)

redact_pii(text) == redact_pii_from(text, text, <<>>, 1)

(***************************************************************************)
(* Dictionaries.  A dictionary is an object of the heap, named by its      *)
(* position there; its values are strings, numbers (left as str() prints   *)
(* them) or references to other dictionaries.  dict.copy() allocates a new *)
(* object with the same values: a referenced dictionary is shared, not     *)
(* copied.                                                                 *)
(***************************************************************************)
Str(s) == [kind |-> "str", str |-> s, ref |-> 0]
Number(digits) == [kind |-> "int", str |-> digits, ref |-> 0]
Ref(id) == [kind |-> "dict", str |-> <<>>, ref |-> id]

\* the case dictionary of a submitted case
CaseRef == 1

\* the keys of a metadata dictionary, in insertion order, and their text
MetadataKeys == <<"note", "count", "nested">>
KeyText ==
    [ note |-> <<"n", "o", "t", "e">>,
      count |-> <<"c", "o", "u", "n", "t">>,
      nested |-> <<"n", "e", "s", "t", "e", "d">> ]

\* bool(value), for a string or a number
Truthy(value) == value.str # <<>> /\ value # Number(<<"0">>)

RECURSIVE Join(_, _)
Join(parts, sep) ==
    IF parts = <<>> THEN <<>>
    ELSE IF Len(parts) = 1 THEN parts[1]
    ELSE parts[1] \o sep \o Join(Tail(parts), sep)

\* ComplianceAgent._extract_text
_extract_text(objects, case_data) ==
    LET d == objects[case_data]
        Present(field) == field \in DOMAIN d /\ Truthy(d[field])
        fields == SelectSeq(<<"title", "description", "customer_id">>,
                            Present)
        metadata == IF "metadata" \in DOMAIN d
                    THEN objects[d.metadata.ref] ELSE << >>
        IsStr(key) == key \in DOMAIN metadata /\ metadata[key].kind = "str"
        keys == SelectSeq(MetadataKeys, IsStr)
        text_parts ==
            [i \in 1..Len(fields) |-> d[fields[i]].str]
              \o [i \in 1..Len(keys) |->
                    KeyText[keys[i]] \o <<":", " ">> \o metadata[keys[i]].str]
    IN  Join(text_parts, <<" ">>)

\* re.sub on a value that is a str, any other value as it is
SubIfStr(pattern_info, value) ==
    IF value.kind = "str"
    THEN Str(re_sub(pattern_info.pattern, pattern_info.replacement,
                    value.str))
    ELSE value

\* the same with no metadata.copy(): the values are stored into the
\* metadata dictionary of the content given
_redact_content_InPlace(objects, content, pattern_info) ==
    LET c == objects[content]
        redacted == [f \in DOMAIN c |->
                       IF f \in {"title", "description", "customer_id"}
                       THEN SubIfStr(pattern_info, c[f]) ELSE c[f]]
    IN  IF "metadata" \in DOMAIN c
        THEN LET metadata == objects[c.metadata.ref]
             IN  [ heap |-> Append([objects EXCEPT ![c.metadata.ref] =
                                      [key \in DOMAIN metadata |->
                                         SubIfStr(pattern_info,
                                                  metadata[key])]],
                                   redacted),
                   ref |-> Len(objects) + 1 ]
        ELSE [ heap |-> Append(objects, redacted), ref |-> Len(objects) + 1 ]

\* ComplianceAgent._redact_content: the heap after it and the dictionary
\* returned
_redact_content(objects, content, pattern_info) ==
    LET c == objects[content]
        redacted == [f \in DOMAIN c |->
                       IF f \in {"title", "description", "customer_id"}
                       THEN SubIfStr(pattern_info, c[f]) ELSE c[f]]
    IN  IF "metadata" \in DOMAIN c
        THEN LET metadata == objects[c.metadata.ref]
             IN  [ heap |-> objects \o
                      << [redacted EXCEPT
                            !.metadata = Ref(Len(objects) + 2)],
                         [key \in DOMAIN metadata |->
                            SubIfStr(pattern_info, metadata[key])] >>,
                   ref |-> Len(objects) + 1 ]
        ELSE [ heap |-> Append(objects, redacted), ref |-> Len(objects) + 1 ]

\* the loop of _detect_pii over pii_patterns, from the n-th on
RECURSIVE detect_from(_, _, _, _, _)
detect_from(objects, case_text, detected_types, redacted_content, n) ==
    IF n > Len(pii_patterns)
    THEN [ heap |-> objects,
           detected |-> detected_types # <<>>,
           types |-> detected_types,
           redacted_content |-> redacted_content ]
    ELSE LET pattern_info == pii_patterns[n]
         IN  IF re_search(pattern_info.pattern, case_text)
             THEN LET r == _redact_content(objects, redacted_content,
                                           pattern_info)
                  IN  detect_from(r.heap, case_text,
                                  Append(detected_types,
                                         pattern_info.pii_type),
                                  r.ref, n + 1)
             ELSE detect_from(objects, case_text, detected_types,
                              redacted_content, n + 1)

\* ComplianceAgent._detect_pii
_detect_pii(objects, case_data) ==
    detect_from(Append(objects, objects[case_data]),
                _extract_text(objects, case_data), <<>>,
                Len(objects) + 1, 1)

\* what `from datetime import datetime` binds: the class, whose attributes
\* these are (timedelta is an attribute of the module, not of the class)
DatetimeAttrs ==
    {"utcnow", "now", "fromisoformat", "isoformat", "replace", "strptime",
     "min", "max"}

Max0(a) == IF a >= 0 THEN a ELSE 0

\* variant: the penalty of the issues without its limit
_calculate_compliance_confidence_NoLimit(pii_result, compliance_issues) ==
    Max0(8000 - (IF pii_result.detected THEN 1000 ELSE 0)
              - Len(compliance_issues) * 500)

\* ComplianceAgent._calculate_compliance_confidence
_calculate_compliance_confidence(pii_result, compliance_issues) ==
    Max0(8000 - (IF pii_result.detected THEN 1000 ELSE 0)
              - Min(3000, Len(compliance_issues) * 500))

\* ComplianceAgent.process_compliance: the heap after it, what it returns
\* and whether the try body raised.  _generate_audit_log evaluates
\* datetime.timedelta in _calculate_retention_date.  compliance_issues is
\* what _check_compliance_issues finds.
process_compliance(objects, case_data, compliance_issues, enabled) ==
    LET pii_result ==
            IF enabled THEN _detect_pii(objects, case_data)
            ELSE [ heap |-> objects, detected |-> FALSE, types |-> <<>>,
                   redacted_content |-> case_data ]
    IN  IF "timedelta" \in DatetimeAttrs
        THEN [ heap |-> pii_result.heap,
               body_raises |-> FALSE,
               ret |-> [ pii_detected |-> pii_result.detected,
                         pii_types |-> pii_result.types,
                         redacted_content |-> pii_result.redacted_content,
                         audit_log |-> "audit_trail",
                         compliance_issues |-> compliance_issues,
                         confidence |->
                           _calculate_compliance_confidence(pii_result,
                                                     compliance_issues) ] ]
        ELSE [ heap |-> pii_result.heap,
               body_raises |-> TRUE,
               ret |-> [ pii_detected |-> FALSE,
                         pii_types |-> <<>>,
                         redacted_content |-> case_data,
                         audit_log |-> "error",
                         compliance_issues |->
                           <<"compliance_processing_error">>,
                         confidence |-> 5000 ] ]

(***************************************************************************)
(* The cases and texts tried.                                              *)
(***************************************************************************)
\* a sample of each PII type
pii_samples ==
    [ ssn |->
        <<"1", "2", "3", "-", "4", "5", "-", "6", "7", "8", "9">>,
      credit_card |->
        <<"1", "2", "3", "4", "-", "5", "6", "7", "8", "-", "9", "0",
          "1", "2", "-", "3", "4", "5", "6">>,
      phone |->
        <<"5", "5", "5", "-", "1", "2", "3", "-", "4", "5", "6",
          "7">>,
      email |->
        <<"t", "e", "s", "t", "@", "e", "x", "a", "m", "p", "l", "e",
          ".", "c", "o", "m">>,
      address |->
        <<"1", "2", " ", "E", "l", "m", " ", "S", "t">>,
      account_number |->
        <<"1", "2", "3", "4", "5", "6", "7", "8">>,
      date_of_birth |->
        <<"D", "O", "B", ":", " ", "1", "/", "2", "/", "9", "0">> ]

PiiTypes == {pii_patterns[n].pii_type : n \in 1..Len(pii_patterns)}

\* text with no PII in it
PlainText == <<"C", "l", "a", "i", "m">>

\* other text: characters the patterns and the tokens are made of
OtherPieces ==
    { <<" ">>,
      <<"-">>,
      <<"1">>,
      <<"[">>,
      <<"]">>,
      <<"(", "5", "5", "5", ")", " ">>,
      <<"S", "t">>,
      <<"a", "@", "b", ".">>,
      <<".", "c", "o">>,
      <<"[", "S", "S", "N", "_", "R", "E", "D", "A", "C", "T", "E", "D", "]">> }

Pieces == {pii_samples[t] : t \in PiiTypes} \cup {PlainText} \cup OtherPieces

\* the texts redact_pii is given: a piece, or two pieces one after the other
Texts == Pieces \cup {p \o q : p \in Pieces, q \in Pieces}

\* the texts a field of a case is given
CaseTexts ==
    Pieces \cup {p \o <<" ">> \o q : p \in {pii_samples[t] : t \in PiiTypes},
                                     q \in {pii_samples.ssn, pii_samples.email}}

\* the heap of a submitted case: the case dictionary, its metadata and a
\* dictionary nested in the metadata
Case(title, description, customer_id, notes, note, inner) ==
    << [ title |-> Str(title), description |-> Str(description),
         customer_id |-> Str(customer_id), notes |-> Str(notes),
         metadata |-> Ref(2) ],
       [ note |-> Str(note), count |-> Number(<<"3">>), nested |-> Ref(3) ],
       [ note |-> Str(inner) ] >>

\* the cases tried: one field holds the text, the others plain text
Cases ==
    LET p == PlainText
    IN  UNION { { Case(t, p, p, p, p, p), Case(p, t, p, p, p, p),
                  Case(p, p, t, p, p, p), Case(p, p, p, t, p, p),
                  Case(p, p, p, p, t, p), Case(p, p, p, p, p, t) }
                : t \in CaseTexts }

\* the case the agent entry points are tried on
AgentCases ==
    LET p == PlainText
    IN  { Case(p, pii_samples.ssn, p, p, p, p) }

\* _check_compliance_issues results tried
ComplianceIssues == { <<>>, <<"low_confidence_agent: RouterAgent (0.50)">> }

\* the agents constructed under any of the settings tried, a case submitted
InitSettings ==
    /\ InitExceptSettings
    /\ risk_thresholds \in ThresholdConfigs
    /\ pii_detection_enabled \in BOOLEAN
    /\ heap \in AgentCases
    /\ submitted = heap
    /\ body_str = <<>>

\* a case submitted to a ComplianceAgent, or a text held by a caller of the
\* middleware
InitPii ==
    /\ InitExceptSettings
    /\ risk_thresholds = DefaultThresholds
    /\ pii_detection_enabled \in BOOLEAN
    /\ \/ heap \in Cases /\ body_str = <<>>
       \/ heap = <<>> /\ body_str \in Texts
    /\ submitted = heap

\* the case dictionaries a caller holds: the submitted case and the
\* redacted_content of the calls made
HeldCases ==
    {CaseRef} \cup
    { pii_ret[i].ret.redacted_content :
        i \in {j \in 1..Len(pii_ret) : pii_ret[j].func # "redact_pii"} }

\* process_compliance called by _run_with_retry on the submitted case
call_process_compliance(compliance_issues) ==
    /\ heap # <<>>
    /\ Len(pii_ret) < MaxPiiCalls
    /\ \E out \in {process_compliance(heap, CaseRef, compliance_issues,
                                       pii_detection_enabled)} :
           /\ heap' = out.heap
           /\ pii_ret' = Append(pii_ret, [ func |-> "process_compliance",
                                           arg |-> CaseRef,
                                           ret |-> out.ret ])
           /\ agent_ret' = << [ func |-> "process_compliance",
                                body_raises |-> out.body_raises,
                                ret |-> Returned(out.ret) ] >>
    /\ UNCHANGED <<orchVars, now, auditVars, team_capabilities, team_rows,
                   updates, pairVars, routed, risk_thresholds,
                   pii_detection_enabled, submitted, body_str, retry,
                   policyVars, jobVars>>

\* _detect_pii on a case dictionary the caller holds
call__detect_pii(case_data) ==
    /\ heap # <<>>
    /\ Len(pii_ret) < MaxPiiCalls
    /\ \E out \in {_detect_pii(heap, case_data)} :
           /\ heap' = out.heap
           /\ pii_ret' = Append(pii_ret,
                  [ func |-> "_detect_pii",
                    arg |-> case_data,
                    ret |-> [ detected |-> out.detected,
                              types |-> out.types,
                              redacted_content |-> out.redacted_content ] ])
    /\ UNCHANGED <<orchVars, now, auditVars, team_capabilities, team_rows,
                   updates, pairVars, routed, risk_thresholds, agent_ret,
                   pii_detection_enabled, submitted, body_str, retry,
                   policyVars, jobVars>>

\* redact_pii on the body held (the middleware looks at a body that is not
\* empty), which the redacted text replaces
call_redact_pii ==
    /\ body_str # <<>>
    /\ Len(pii_ret) < MaxPiiCalls
    /\ \E ret \in {redact_pii(body_str)} :
           /\ body_str' = ret.redacted_text
           /\ pii_ret' = Append(pii_ret, [ func |-> "redact_pii",
                                           arg |-> body_str,
                                           ret |-> ret ])
    /\ UNCHANGED <<orchVars, now, auditVars, team_capabilities, team_rows,
                   updates, pairVars, routed, risk_thresholds, agent_ret,
                   pii_detection_enabled, heap, submitted, retry,
                   policyVars, jobVars>>

NextPii ==
    \/ \E i \in ComplianceIssues : call_process_compliance(i)
    \/ \E c \in HeldCases : call__detect_pii(c)
    \/ call_redact_pii

SpecPii == InitPii /\ [][NextPii]_vars

\* the arguments tried
ComputedClassifications ==
    [ case_type : {"insurance_claim", "fraud_review", "bank_dispute"},
      urgency : {"low", "critical"},
      confidence : {8000},
      missing_fields : {<<>>} ]

RiskCaseData ==
    [ amount : {NotANumber, 0, 6000, 20000},
      fraud_text : BOOLEAN,
      complexity_text : {FALSE} ]

RiskClassifications ==
    [ case_type : {"insurance_claim", "fraud_review", "bank_dispute"},
      urgency : {"low", "critical"},
      missing_fields : {0, 4} ]

MlScores == {NoMl, 0, 5500, 10000}

SuggestedActions ==
    { <<"Verify claim details">>,
      <<"Verify claim details", "Prioritize for immediate review">> }

Confidences == { <<5000, 5000, 5000>>, <<8000, 7000, 9500>>,
                 <<10000, 10000, 10000>> }

\* one call of an entry point by _run_with_retry, the one call of the
\* behaviour
call_classify(final_result, body_raises) ==
    /\ agent_ret = <<>>
    /\ agent_ret' = << [ func |-> "classify", body_raises |-> body_raises,
                         ret |-> classify(final_result, body_raises) ] >>
    /\ UNCHANGED <<orchVars, now, auditVars, team_capabilities, team_rows,
                   updates, pairVars, routed, risk_thresholds, piiVars,
                   retry, policyVars, jobVars>>

call_score_risk(case_data, classification_result, ml_score) ==
    /\ agent_ret = <<>>
    /\ agent_ret' = << [ func |-> "score_risk",
                         body_raises |-> (case_data.amount = NotANumber),
                         ret |-> score_risk(case_data, classification_result,
                                            ml_score, risk_thresholds) ] >>
    /\ UNCHANGED <<orchVars, now, auditVars, team_capabilities, team_rows,
                   updates, pairVars, routed, risk_thresholds, piiVars,
                   retry, policyVars, jobVars>>

call_provide_support(suggested_actions, confidences, body_raises) ==
    /\ agent_ret = <<>>
    /\ agent_ret' = << [ func |-> "provide_support",
                         body_raises |-> body_raises,
                         ret |-> provide_support(suggested_actions,
                                                 confidences, body_raises) ] >>
    /\ UNCHANGED <<orchVars, now, auditVars, team_capabilities, team_rows,
                   updates, pairVars, routed, risk_thresholds, piiVars,
                   retry, policyVars, jobVars>>

\* route_case called by _run_with_retry: every call ends in the except
\* branch of route_case
call_route_case_entry(classification_result, risk_result, response) ==
    /\ agent_ret = <<>>
    /\ agent_ret' = << [ func |-> "route_case", body_raises |-> TRUE,
                         ret |-> Returned(route_case(classification_result,
                                     risk_result, response,
                                     team_capabilities)) ] >>
    /\ UNCHANGED <<orchVars, now, auditVars, team_capabilities, team_rows,
                   updates, pairVars, routed, risk_thresholds, piiVars,
                   retry, policyVars, jobVars>>

NextAgents ==
    \/ \E c \in ComputedClassifications, b \in BOOLEAN : call_classify(c, b)
    \/ \E d \in RiskCaseData, c \in RiskClassifications, m \in MlScores :
          call_score_risk(d, c, m)
    \/ \E a \in SuggestedActions, c \in Confidences, b \in BOOLEAN :
          call_provide_support(a, c, b)
    \/ \E c \in ClassificationResults, k \in RiskResults, o \in OpaResponses :
          call_route_case_entry(c, k, o)
    \/ \E i \in ComplianceIssues : call_process_compliance(i)

SpecAgents == InitSettings /\ [][NextAgents]_vars

(***************************************************************************)
(* The numbers of the final decision.  An agent result carries its agent's *)
(* name, its confidence and, for the risk scorer, the risk_score of its    *)
(* result.  Weights are in 1/100, confidences and scores in 1/10000; a     *)
(* quotient is kept as numerator and denominator.                          *)
(***************************************************************************)
weights ==
    [ ClassifierAgent |-> 25, RiskScorerAgent |-> 25, RouterAgent |-> 20,
      DecisionSupportAgent |-> 15, ComplianceAgent |-> 15 ]

\* weights.get(agent_name, 0.1)
WeightOf(agent_name) ==
    IF agent_name \in DOMAIN weights THEN weights[agent_name] ELSE 10

\* the loop of _calculate_overall_confidence, from the n-th result on
RECURSIVE WeightedSums(_, _, _, _)
WeightedSums(agent_results, n, weighted_sum, total_weight) ==
    IF n > Len(agent_results)
    THEN [num |-> weighted_sum, den |-> total_weight]
    ELSE LET weight == WeightOf(agent_results[n].agent_name)
         IN  WeightedSums(agent_results, n + 1,
                          weighted_sum + agent_results[n].confidence * weight,
                          total_weight + weight)

\* the same, dividing by the weight of all five agents
_calculate_overall_confidence_AllWeights(agent_results) ==
    IF agent_results = <<>> THEN [num |-> 0, den |-> 1]
    ELSE [num |-> WeightedSums(agent_results, 1, 0, 0).num, den |-> 100]

\* AgentOrchestrator._calculate_overall_confidence
_calculate_overall_confidence(agent_results) ==
    IF agent_results = <<>> THEN [num |-> 0, den |-> 1]
    ELSE LET sums == WeightedSums(agent_results, 1, 0, 0)
         IN  IF sums.den > 0 THEN sums ELSE [num |-> 0, den |-> 1]

\* risk_score and overall_confidence of _generate_final_decision
FinalDecisionNumbers(agent_results) ==
    LET risk == SelectSeq(agent_results,
                          LAMBDA r : r.agent_name = "RiskScorerAgent")
    IN  [ risk_score |-> IF risk = <<>> THEN 0 ELSE risk[1].risk_score,
          overall_confidence |->
              _calculate_overall_confidence(agent_results) ]

\* the agent results tried: any of the agents present, in pipeline order;
\* the risk scorer's with a score and a confidence score_risk returns
ConfidenceValues == {0, 5000, 10000}

RiskAgentResults ==
    { [ agent_name |-> "RiskScorerAgent", confidence |-> v.confidence,
        risk_score |-> v.risk_score ] :
      v \in { score_risk(d, c, m, DefaultThresholds).value :
                d \in RiskCaseData, c \in RiskClassifications,
                m \in MlScores } }

OtherAgentResults(agent_name) ==
    { [agent_name |-> agent_name, confidence |-> c, risk_score |-> 0] :
        c \in ConfidenceValues }

\* none or one of the results
Maybe(results) == {<<>>} \cup {<<r>> : r \in results}

AgentResultLists ==
    { c \o k \o ro \o d \o co :
        c \in Maybe(OtherAgentResults("ClassifierAgent")),
        k \in Maybe(RiskAgentResults),
        ro \in Maybe(OtherAgentResults("RouterAgent")),
        d \in Maybe(OtherAgentResults("DecisionSupportAgent")),
        co \in Maybe(OtherAgentResults("ComplianceAgent")) }

\* _generate_final_decision called on a list of agent results
call__generate_final_decision(agent_results) ==
    /\ agent_ret = <<>>
    /\ agent_ret' = << [ func |-> "_generate_final_decision",
                         agent_results |-> agent_results,
                         ret |-> Returned(FinalDecisionNumbers(
                                            agent_results)) ] >>
    /\ UNCHANGED <<orchVars, now, auditVars, team_capabilities, team_rows,
                   updates, pairVars, routed, risk_thresholds, piiVars,
                   retry, policyVars, jobVars>>

NextDecision ==
    \E a \in AgentResultLists : call__generate_final_decision(a)

SpecDecision == Init /\ [][NextDecision]_vars

(***************************************************************************)
(* _run_with_retry on its own, for any agent_func: each attempt returns,   *)
(* is cut off by asyncio.wait_for, or raises.  An error is the text of its *)
(* message.                                                                *)
(***************************************************************************)
\* "circuit_breaker"
circuit_breaker_text ==
    <<"c", "i", "r", "c", "u", "i", "t", "_", "b", "r", "e", "a", "k", "e", "r">>

\* the messages of the errors an attempt raises
ErrorMessages ==
    { <<"b", "a", "d", " ", "v", "a", "l", "u", "e">>,
      <<"n", "o", " ", "r", "o", "u", "t", "e">>,
      <<"C", "i", "r", "c", "u", "i", "t", " ", "b", "r", "e", "a", "k", "e", "r", " ", "i", "s", " ", "o", "p", "e", "n">>,
      <<"c", "i", "r", "c", "u", "i", "t", "_", "b", "r", "e", "a", "k", "e", "r", " ", "o", "p", "e", "n">>,
      <<"C", "i", "r", "c", "u", "i", "t", "_", "B", "r", "e", "a", "k", "e", "r">> }

\* Exception(f"Agent timeout on attempt {attempt + 1}")
AgentTimeoutError(attempt) ==
    <<"A", "g", "e", "n", "t", " ", "t", "i", "m", "e", "o", "u", "t", " ", "o", "n", " ", "a", "t", "t", "e", "m", "p", "t", " ">>
      \o <<ToString(attempt + 1)>>

\* variant: the test without lower()
MentionsCircuitBreaker_CaseSensitive(e) == Occurs(circuit_breaker_text, e)

\* "circuit_breaker" in str(e).lower()
MentionsCircuitBreaker(e) == Occurs(circuit_breaker_text, Lower(e))

\* the same with one attempt more
AfterFailedAttempt_OneMore(me, e) ==
    IF me.attempt < max_retries
    THEN [me EXCEPT !.pc = "backoff", !.last_exception = e,
                    !.slept = @ + wait_time(me.attempt)]
    ELSE [me EXCEPT !.pc = "raised", !.last_exception = e, !.result = e]

\* the end of a loop turn whose attempt failed with e: sleep before the
\* next attempt, or leave the loop and raise last_exception
AfterFailedAttempt(me, e) ==
    IF me.attempt < max_retries - 1
    THEN [me EXCEPT !.pc = "backoff", !.last_exception = e,
                    !.slept = @ + wait_time(me.attempt)]
    ELSE [me EXCEPT !.pc = "raised", !.last_exception = e, !.result = e]

\* _run_with_retry is called: the first attempt is awaited
call__run_with_retry ==
    /\ retry.pc = "idle"
    /\ retry' = [retry EXCEPT !.pc = "agent_call"]
    /\ UNCHANGED <<orchVars, now, auditVars, team_capabilities, team_rows,
                   updates, pairVars, routed, risk_thresholds, agent_ret,
                   piiVars, policyVars, jobVars>>

\* the attempt returns a result, which _run_with_retry returns
attempt_returns ==
    /\ retry.pc = "agent_call"
    /\ retry' = [retry EXCEPT !.pc = "returned",
                              !.outcomes = Append(@, [kind |-> "returned",
                                                      error |-> NoneStr]),
                              !.result = "result"]
    /\ UNCHANGED <<orchVars, now, auditVars, team_capabilities, team_rows,
                   updates, pairVars, routed, risk_thresholds, agent_ret,
                   piiVars, policyVars, jobVars>>

\* asyncio.TimeoutError
attempt_times_out ==
    /\ retry.pc = "agent_call"
    /\ LET e == AgentTimeoutError(retry.attempt)
           me == [retry EXCEPT !.outcomes =
                     Append(@, [kind |-> "timeout", error |-> e])]
       IN  retry' = AfterFailedAttempt(me, e)
    /\ UNCHANGED <<orchVars, now, auditVars, team_capabilities, team_rows,
                   updates, pairVars, routed, risk_thresholds, agent_ret,
                   piiVars, policyVars, jobVars>>

\* any other Exception: raised again at once when its message mentions
\* circuit_breaker
attempt_raises(e) ==
    /\ retry.pc = "agent_call"
    /\ LET me == [retry EXCEPT !.outcomes =
                     Append(@, [kind |-> "error", error |-> e])]
       IN  retry' = IF MentionsCircuitBreaker(e)
                    THEN [me EXCEPT !.pc = "raised", !.last_exception = e,
                                    !.result = e]
                    ELSE AfterFailedAttempt(me, e)
    /\ UNCHANGED <<orchVars, now, auditVars, team_capabilities, team_rows,
                   updates, pairVars, routed, risk_thresholds, agent_ret,
                   piiVars, policyVars, jobVars>>

\* asyncio.sleep(wait_time) is over: the next turn of the loop
sleep_over ==
    /\ retry.pc = "backoff"
    /\ retry' = [retry EXCEPT !.pc = "agent_call", !.attempt = @ + 1]
    /\ UNCHANGED <<orchVars, now, auditVars, team_capabilities, team_rows,
                   updates, pairVars, routed, risk_thresholds, agent_ret,
                   piiVars, policyVars, jobVars>>

NextRetry ==
    \/ call__run_with_retry
    \/ attempt_returns
    \/ attempt_times_out
    \/ \E e \in ErrorMessages : attempt_raises(e)
    \/ sleep_over

SpecRetry == Init /\ [][NextRetry]_vars

(***************************************************************************)
(* Rule-based classification: keyword counts over the lower-cased text of  *)
(* the case, and the three agents run one after the other on one case.     *)
(***************************************************************************)
\* ClassifierAgent.case_type_keywords, in the order of the dict
case_type_keywords ==
    << [ case_type |-> "insurance_claim",
         keywords |->
           << <<"c", "l", "a", "i", "m">>,
              <<"i", "n", "s", "u", "r", "a", "n", "c", "e">>,
              <<"p", "o", "l", "i", "c", "y">>,
              <<"c", "o", "v", "e", "r", "a", "g", "e">>,
              <<"p", "r", "e", "m", "i", "u", "m">>,
              <<"d", "e", "d", "u", "c", "t", "i", "b", "l", "e">>,
              <<"m", "e", "d", "i", "c", "a", "l">>,
              <<"d", "e", "n", "t", "a", "l">>,
              <<"v", "i", "s", "i", "o", "n">>,
              <<"a", "c", "c", "i", "d", "e", "n", "t">>,
              <<"d", "i", "s", "a", "b", "i", "l", "i", "t", "y">> >> ],
       [ case_type |-> "healthcare_prior_auth",
         keywords |->
           << <<"p", "r", "i", "o", "r", " ", "a", "u", "t", "h", "o", "r",
                "i", "z", "a", "t", "i", "o", "n">>,
              <<"p", "r", "e", "-", "a", "u", "t", "h", "o", "r", "i", "z",
                "a", "t", "i", "o", "n">>,
              <<"m", "e", "d", "i", "c", "a", "l", " ", "n", "e", "c", "e",
                "s", "s", "i", "t", "y">>,
              <<"t", "r", "e", "a", "t", "m", "e", "n", "t", " ", "p", "l",
                "a", "n">>,
              <<"p", "r", "e", "s", "c", "r", "i", "p", "t", "i", "o", "n">>,
              <<"m", "e", "d", "i", "c", "a", "t", "i", "o", "n">>,
              <<"p", "r", "o", "c", "e", "d", "u", "r", "e">> >> ],
       [ case_type |-> "bank_dispute",
         keywords |->
           << <<"d", "i", "s", "p", "u", "t", "e">>,
              <<"c", "h", "a", "r", "g", "e", "b", "a", "c", "k">>,
              <<"f", "r", "a", "u", "d", "u", "l", "e", "n", "t">>,
              <<"u", "n", "a", "u", "t", "h", "o", "r", "i", "z", "e", "d">>,
              <<"b", "a", "n", "k">>,
              <<"c", "r", "e", "d", "i", "t", " ", "c", "a", "r", "d">>,
              <<"d", "e", "b", "i", "t">>,
              <<"t", "r", "a", "n", "s", "a", "c", "t", "i", "o", "n">>,
              <<"r", "e", "f", "u", "n", "d">> >> ],
       [ case_type |-> "legal_intake",
         keywords |->
           << <<"l", "e", "g", "a", "l">>,
              <<"a", "t", "t", "o", "r", "n", "e", "y">>,
              <<"l", "a", "w", "y", "e", "r">>,
              <<"l", "a", "w", "s", "u", "i", "t">>,
              <<"l", "i", "t", "i", "g", "a", "t", "i", "o", "n">>,
              <<"c", "o", "n", "t", "r", "a", "c", "t">>,
              <<"b", "r", "e", "a", "c", "h">>,
              <<"d", "a", "m", "a", "g", "e", "s">>,
              <<"s", "e", "t", "t", "l", "e", "m", "e", "n", "t">>,
              <<"c", "o", "u", "r", "t">> >> ],
       [ case_type |-> "fraud_review",
         keywords |->
           << <<"f", "r", "a", "u", "d">>,
              <<"s", "u", "s", "p", "i", "c", "i", "o", "u", "s">>,
              <<"i", "n", "v", "e", "s", "t", "i", "g", "a", "t", "i", "o",
                "n">>,
              <<"i", "d", "e", "n", "t", "i", "t", "y", " ", "t", "h", "e",
                "f", "t">>,
              <<"f", "o", "r", "g", "e", "r", "y">>,
              <<"c", "o", "u", "n", "t", "e", "r", "f", "e", "i", "t">>,
              <<"e", "m", "b", "e", "z", "z", "l", "e", "m", "e", "n", "t">>,
              <<"m", "o", "n", "e", "y", " ", "l", "a", "u", "n", "d", "e",
                "r", "i", "n", "g">> >> ] >>

\* ClassifierAgent.urgency_keywords, in the order of the dict
urgency_keywords ==
    << [ urgency |-> "critical",
         keywords |->
           << <<"e", "m", "e", "r", "g", "e", "n", "c", "y">>,
              <<"u", "r", "g", "e", "n", "t">>,
              <<"i", "m", "m", "e", "d", "i", "a", "t", "e">>,
              <<"c", "r", "i", "t", "i", "c", "a", "l">>,
              <<"l", "i", "f", "e", "-", "t", "h", "r", "e", "a", "t", "e",
                "n", "i", "n", "g">>,
              <<"s", "e", "v", "e", "r", "e">>,
              <<"a", "c", "u", "t", "e">>,
              <<"t", "r", "a", "u", "m", "a">>,
              <<"c", "a", "r", "d", "i", "a", "c">>,
              <<"s", "t", "r", "o", "k", "e">> >> ],
       [ urgency |-> "high",
         keywords |->
           << <<"h", "i", "g", "h", " ", "p", "r", "i", "o", "r", "i", "t",
                "y">>,
              <<"i", "m", "p", "o", "r", "t", "a", "n", "t">>,
              <<"t", "i", "m", "e", "-", "s", "e", "n", "s", "i", "t", "i",
                "v", "e">>,
              <<"d", "e", "a", "d", "l", "i", "n", "e">>,
              <<"e", "s", "c", "a", "l", "a", "t", "i", "o", "n">>,
              <<"c", "o", "m", "p", "l", "a", "i", "n", "t">>,
              <<"d", "i", "s", "p", "u", "t", "e">> >> ],
       [ urgency |-> "medium",
         keywords |->
           << <<"s", "t", "a", "n", "d", "a", "r", "d">>,
              <<"r", "o", "u", "t", "i", "n", "e">>,
              <<"n", "o", "r", "m", "a", "l">>,
              <<"r", "e", "g", "u", "l", "a", "r">>,
              <<"s", "c", "h", "e", "d", "u", "l", "e", "d">> >> ],
       [ urgency |-> "low",
         keywords |->
           << <<"l", "o", "w", " ", "p", "r", "i", "o", "r", "i", "t", "y">>,
              <<"n", "o", "n", "-", "u", "r", "g", "e", "n", "t">>,
              <<"r", "o", "u", "t", "i", "n", "e">>,
              <<"m", "a", "i", "n", "t", "e", "n", "a", "n", "c", "e">>,
              <<"i", "n", "q", "u", "i", "r", "y">> >> ] >>

\* RiskScorerAgent.risk_patterns, the two lists _score_with_rules reads
risk_patterns ==
    << [ pattern_type |-> "fraud_indicators",
         keywords |->
           << <<"s", "u", "s", "p", "i", "c", "i", "o", "u", "s">>,
              <<"u", "n", "u", "s", "u", "a", "l">>,
              <<"u", "n", "e", "x", "p", "e", "c", "t", "e", "d">>,
              <<"a", "n", "o", "m", "a", "l", "y">>,
              <<"i", "r", "r", "e", "g", "u", "l", "a", "r">>,
              <<"d", "u", "p", "l", "i", "c", "a", "t", "e">>,
              <<"m", "u", "l", "t", "i", "p", "l", "e", " ", "c", "l", "a",
                "i", "m", "s">>,
              <<"r", "e", "c", "e", "n", "t", " ", "p", "o", "l", "i", "c",
                "y">>,
              <<"h", "i", "g", "h", " ", "a", "m", "o", "u", "n", "t">> >> ],
       [ pattern_type |-> "complexity_indicators",
         keywords |->
           << <<"c", "o", "m", "p", "l", "e", "x">>,
              <<"c", "o", "m", "p", "l", "i", "c", "a", "t", "e", "d">>,
              <<"m", "u", "l", "t", "i", "p", "l", "e", " ", "p", "a", "r",
                "t", "i", "e", "s">>,
              <<"l", "e", "g", "a", "l">>,
              <<"l", "i", "t", "i", "g", "a", "t", "i", "o", "n">>,
              <<"d", "i", "s", "p", "u", "t", "e">>,
              <<"a", "p", "p", "e", "a", "l">>,
              <<"r", "e", "v", "i", "e", "w">>,
              <<"i", "n", "v", "e", "s", "t", "i", "g", "a", "t", "i", "o",
                "n">> >> ] >>

\* sum(1 for keyword in keywords if keyword in text)
KeywordScore(keywords, text) ==
    Cardinality({k \in 1..Len(keywords) : Occurs(keywords[k], text)})

\* max(scores.items(), key=lambda x: x[1]): the first of the entries with
\* the highest score
FirstMax(scores) ==
    CHOOSE i \in 1..Len(scores) :
        /\ \A j \in 1..Len(scores) : scores[j] <= scores[i]
        /\ \A j \in 1..(i - 1) : scores[j] < scores[i]

\* min(0.8, score / 3), to four decimals
KeywordConfidence(score) == Min(8000, (score * 10000) \div 3)

\* _classify_with_rules; missing_fields as _identify_missing_fields found
\* them
_classify_with_rules(text, missing_fields) ==
    LET case_type_scores ==
            [i \in 1..Len(case_type_keywords) |->
                KeywordScore(case_type_keywords[i].keywords, text)]
        c == FirstMax(case_type_scores)
        urgency_scores ==
            [i \in 1..Len(urgency_keywords) |->
                KeywordScore(urgency_keywords[i].keywords, text)]
        u == FirstMax(urgency_scores)
    IN  [ case_type |-> case_type_keywords[c].case_type,
          urgency |-> urgency_keywords[u].urgency,
          confidence |-> (KeywordConfidence(case_type_scores[c])
                          + KeywordConfidence(urgency_scores[u])) \div 2,
          missing_fields |-> missing_fields ]

\* _identify_risk_patterns(text)[pattern_type] is not empty
HasRiskPattern(pattern_type, text) ==
    \E i \in 1..Len(risk_patterns) :
        /\ risk_patterns[i].pattern_type = pattern_type
        /\ KeywordScore(risk_patterns[i].keywords, text) > 0

\* the lower-cased texts of the cases classified: title and description
ClassifiedTexts ==
    { <<"m", "i", "n", "o", "r", " ", "f", "e", "n", "d", "e", "r", " ", "b",
        "e", "n", "d", "e", "r", " ", "l", "o", "w", "-", "s", "p", "e", "e",
        "d", " ", "c", "o", "l", "l", "i", "s", "i", "o", "n", ",", " ", "s",
        "m", "a", "l", "l", " ", "d", "e", "n", "t">>,
      <<"w", "a", "t", "e", "r", " ", "l", "e", "a", "k", " ", "i", "n", " ",
        "k", "i", "t", "c", "h", "e", "n">>,
      <<"c", "l", "a", "i", "m", " ", "f", "o", "r", " ", "b", "r", "o", "k",
        "e", "n", " ", "w", "i", "n", "d", "o", "w">>,
      <<"r", "o", "u", "t", "i", "n", "e", " ", "i", "n", "q", "u", "i", "r",
        "y">>,
      <<"u", "r", "g", "e", "n", "t", " ", "c", "h", "a", "r", "g", "e", "b",
        "a", "c", "k", " ", "d", "i", "s", "p", "u", "t", "e">>,
      <<"s", "u", "s", "p", "i", "c", "i", "o", "u", "s", " ", "d", "u", "p",
        "l", "i", "c", "a", "t", "e", " ", "c", "l", "a", "i", "m">> }

\* case_data["amount"]
Amounts == {0, 800, 5000, 6000}

\* classify without LLM keys and without ML models: _classify_with_ml hands
\* the text to _classify_with_rules; title and description are present
call_classify_text(text) ==
    /\ agent_ret = <<>>
    /\ agent_ret' = << [ func |-> "classify", text |-> text,
                         ret |-> classify(_classify_with_rules(text, <<>>),
                                          FALSE) ] >>
    /\ UNCHANGED <<orchVars, now, auditVars, team_capabilities, team_rows,
                   updates, pairVars, routed, risk_thresholds, piiVars,
                   retry, policyVars, jobVars>>

\* score_risk on the same case and the classifier's result, no ML model
call_score_risk_text(amount) ==
    /\ Len(agent_ret) = 1
    /\ agent_ret[1].func = "classify"
    /\ "text" \in DOMAIN agent_ret[1]
    /\ LET text == agent_ret[1].text
           c == agent_ret[1].ret.value
       IN  agent_ret' = Append(agent_ret,
              [ func |-> "score_risk", amount |-> amount,
                ret |-> score_risk(
                   [ amount |-> amount,
                     fraud_text |-> HasRiskPattern("fraud_indicators", text),
                     complexity_text |->
                         HasRiskPattern("complexity_indicators", text) ],
                   [ case_type |-> c.case_type, urgency |-> c.urgency,
                     missing_fields |-> Len(c.missing_fields) ],
                   NoMl, risk_thresholds) ])
    /\ UNCHANGED <<orchVars, now, auditVars, team_capabilities, team_rows,
                   updates, pairVars, routed, risk_thresholds, piiVars,
                   retry, policyVars, jobVars>>

\* route_case on the two results, with the loads as they are
call_route_case_text(response) ==
    /\ Len(agent_ret) = 2
    /\ agent_ret[2].func = "score_risk"
    /\ LET c == agent_ret[1].ret.value
           r == agent_ret[2].ret.value
       IN  agent_ret' = Append(agent_ret,
              [ func |-> "route_case", response |-> response,
                ret |-> route_case(
                   [ case_type |-> c.case_type, urgency |-> c.urgency ],
                   [ risk_level |-> r.risk_level,
                     risk_factors |-> Len(r.risk_factors) ],
                   response, team_capabilities) ])
    /\ UNCHANGED <<orchVars, now, auditVars, team_capabilities, team_rows,
                   updates, pairVars, routed, risk_thresholds, piiVars,
                   retry, policyVars, jobVars>>

NextClassify ==
    \/ \E text \in ClassifiedTexts : call_classify_text(text)
    \/ \E amount \in Amounts : call_score_risk_text(amount)
    \/ \E response \in OpaResponses : call_route_case_text(response)

SpecClassify == Init /\ [][NextClassify]_vars

(***************************************************************************)
(* _apply_business_rules on its own, for every classification and risk     *)
(* result.                                                                 *)
(***************************************************************************)
\* classification_result: every case type and urgency
RuleClassifications ==
    [ case_type : {"insurance_claim", "healthcare_prior_auth", "bank_dispute",
                   "legal_intake", "fraud_review"},
      urgency : {"low", "medium", "high", "critical"} ]

\* risk_result: every risk level, and risk_factors as score_risk lists them
RuleRiskResults ==
    [ risk_level : {"low", "medium", "high", "extreme"},
      risk_factors : {<<>>, <<"fraud_indicators">>, <<"medium_amount">>} ]

\* one _apply_business_rules call
call__apply_business_rules(classification_result, risk_result) ==
    /\ agent_ret = <<>>
    /\ agent_ret' =
          << [ func |-> "_apply_business_rules",
               classification_result |-> classification_result,
               risk_result |-> risk_result,
               ret |-> _apply_business_rules(
                          classification_result,
                          [ risk_level |-> risk_result.risk_level,
                            risk_factors |->
                                Len(risk_result.risk_factors) ]) ] >>
    /\ UNCHANGED <<orchVars, now, auditVars, team_capabilities, team_rows,
                   updates, pairVars, routed, risk_thresholds, piiVars,
                   retry, policyVars, jobVars>>

NextRules ==
    \E c \in RuleClassifications, r \in RuleRiskResults :
        call__apply_business_rules(c, r)

SpecRules == Init /\ [][NextRules]_vars

(***************************************************************************)
(* _validate_team_capacity on its own, for every chosen team and for loads *)
(* around the two thresholds.                                              *)
(***************************************************************************)
\* current_load of a team: none, just below and at 80% and 90% of capacity
LoadsAround(team) ==
    { 0, (8 * TeamCapacity[team]) \div 10 - 1, (8 * TeamCapacity[team]) \div 10,
      (9 * TeamCapacity[team]) \div 10 }

\* the routing results _combine_routing_decisions hands over
CombinedRoutings ==
    { [ team |-> t, sla_hours |-> 24, escalation |-> FALSE,
        confidence |-> c.confidence, policy_applied |-> c.policy_applied ] :
      t \in TeamNames,
      c \in { [confidence |-> 9500, policy_applied |-> "opa_policy"],
              [confidence |-> 9000, policy_applied |-> "urgent_cases"],
              [confidence |-> 7000, policy_applied |-> "default_standard"] } }

\* update_team_load(team, load_change) on a team without load, before the
\* capacity check
load_team(team, load_change) ==
    /\ agent_ret = <<>>
    /\ team_capabilities[team] = 0
    /\ load_change > 0
    /\ team_capabilities' = TeamLoadsAfter(team_capabilities, team, load_change)
    /\ UNCHANGED <<orchVars, now, auditVars, team_rows, updates, pairVars,
                   routed, agentVars, policyVars, jobVars>>

\* one _validate_team_capacity call with the loads as they are
call__validate_team_capacity(routing_result) ==
    /\ agent_ret = <<>>
    /\ agent_ret' =
          << [ func |-> "_validate_team_capacity",
               routing_result |-> routing_result,
               ret |-> _validate_team_capacity(routing_result,
                                               team_capabilities) ] >>
    /\ UNCHANGED <<orchVars, now, auditVars, team_capabilities, team_rows,
                   updates, pairVars, routed, risk_thresholds, piiVars,
                   retry, policyVars, jobVars>>

NextCapacity ==
    \/ \E team \in TeamNames : \E load_change \in LoadsAround(team) :
          load_team(team, load_change)
    \/ \E rr \in CombinedRoutings : call__validate_team_capacity(rr)

SpecCapacity == Init /\ [][NextCapacity]_vars

(***************************************************************************)
(* _calculate_compliance_confidence on its own.                            *)
(***************************************************************************)
\* a list of n compliance issues
IssueList(n) == [i \in 1..n |-> "missing_required_field"]

\* one _calculate_compliance_confidence call
call__calculate_compliance_confidence(detected, n) ==
    /\ Len(agent_ret) < MaxConfidenceCalls
    /\ \A i \in 1..Len(agent_ret) :
          agent_ret[i].func = "_calculate_compliance_confidence"
    /\ agent_ret' = Append(agent_ret,
          [ func |-> "_calculate_compliance_confidence",
            detected |-> detected,
            issues |-> n,
            ret |-> _calculate_compliance_confidence(
                       [detected |-> detected], IssueList(n)) ])
    /\ UNCHANGED <<orchVars, now, auditVars, team_capabilities, team_rows,
                   updates, pairVars, routed, risk_thresholds, piiVars,
                   retry, policyVars, jobVars>>

NextConfidence ==
    \E detected \in BOOLEAN, n \in 0..MaxIssues :
        call__calculate_compliance_confidence(detected, n)

SpecConfidence == Init /\ [][NextConfidence]_vars

(***************************************************************************)
(* The policy directory and PolicyManager._policy_watcher.  A poll lists   *)
(* the *.rego files and goes through them; it suspends at the await of     *)
(* load_policy for a changed file and at the sleep that ends it.           *)
(***************************************************************************)
\* the latest modification time in the directory
Newest ==
    CHOOSE m \in 0..MaxMtime :
        /\ \A f \in PolicyFileNames : policy_files[f].mtime <= m
        /\ \E f \in PolicyFileNames : policy_files[f].mtime = m

\* policy_path.write_text(policy_content), by create_policy or by an editor
write_policy_file(f) ==
    /\ Newest < MaxMtime
    /\ policy_files' = [policy_files EXCEPT
                           ![f] = [exists |-> TRUE, mtime |-> Newest + 1]]
    /\ UNCHANGED <<orchVars, now, auditVars, teamVars, opa_policies, watcher,
                   jobVars>>

\* PolicyManager.delete_policy: the file is unlinked and the policy evaluator
\* is asked to delete the policy, which it does or not
delete_policy(f, success) ==
    /\ policy_files' = [policy_files EXCEPT ![f].exists = FALSE]
    /\ opa_policies' = IF success THEN [opa_policies EXCEPT ![f] = 0]
                       ELSE opa_policies
    /\ UNCHANGED <<orchVars, now, auditVars, teamVars, watcher, jobVars>>

RECURSIVE ForPolicyFile(_, _)
\* the for loop over the listed files, up to its next await: stat() of a
\* file that has gone raises, which ends the poll in the except branch
\* with a sleep of 5 seconds; a file changed since last_modified is read
\* and load_policy awaited; after the last file the poll sleeps 2 seconds
ForPolicyFile(w, files) ==
    IF w.listing = <<>>
    THEN [w EXCEPT !.pc = "sleep", !.seconds = 2]
    ELSE LET policy_file == Head(w.listing)
             rest == [w EXCEPT !.listing = Tail(w.listing)]
         IN  IF ~files[policy_file].exists
             THEN [rest EXCEPT !.pc = "sleep", !.seconds = 5]
             ELSE IF files[policy_file].mtime > w.last_modified[policy_file]
             THEN [rest EXCEPT !.pc = "load_policy",
                               !.policy_file = policy_file,
                               !.current_mtime = files[policy_file].mtime,
                               !.policy_content = files[policy_file].mtime,
                               !.tried = @ \cup {policy_file}]
             ELSE ForPolicyFile(rest, files)

\* the sleep is over: self.policies_path.glob("*.rego") lists the files
\* and the loop starts
watcher_polls ==
    /\ watcher.pc = "sleep"
    /\ LET listing == SelectSeq(GlobOrder, LAMBDA f : policy_files[f].exists)
           changed == {f \in PolicyFileNames :
                          /\ policy_files[f].exists
                          /\ policy_files[f].mtime > watcher.last_modified[f]}
       IN  watcher' = ForPolicyFile([watcher EXCEPT !.listing = listing,
                                                    !.changed = changed,
                                                    !.tried = {}],
                                    policy_files)
    /\ UNCHANGED <<orchVars, now, auditVars, teamVars, policy_files,
                   opa_policies, jobVars>>

\* the awaited load_policy returns: on success the policy evaluator holds
\* the content read and last_modified notes current_mtime; the loop goes on
load_policy_returns(success) ==
    /\ watcher.pc = "load_policy"
    /\ LET f == watcher.policy_file
           noted == IF success
                    THEN [watcher EXCEPT
                             !.last_modified[f] = watcher.current_mtime,
                             !.success = TRUE]
                    ELSE [watcher EXCEPT !.success = FALSE]
       IN  /\ opa_policies' =
                 IF success
                 THEN [opa_policies EXCEPT ![f] = watcher.policy_content]
                 ELSE opa_policies
           /\ watcher' = ForPolicyFile(noted, policy_files)
    /\ UNCHANGED <<orchVars, now, auditVars, teamVars, policy_files, jobVars>>

NextPolicies ==
    \/ \E f \in PolicyFileNames : write_policy_file(f)
    \/ \E f \in PolicyFileNames, success \in BOOLEAN : delete_policy(f, success)
    \/ watcher_polls
    \/ \E success \in BOOLEAN : load_policy_returns(success)

SpecPolicies == Init /\ [][NextPolicies]_vars

(***************************************************************************)
(* DecisionSupportAgent._generate_actions.  action_patterns(case_type) is  *)
(* self.action_patterns.get(case_type, {}): a record of the rows           *)
(* high_risk, medium_risk, low_risk, or the empty dictionary.              *)
(***************************************************************************)
action_patterns(case_type) ==
    IF case_type = "insurance_claim" THEN
        [ high_risk |->
            <<"Request additional documentation",
              "Schedule fraud investigation",
              "Notify compliance team",
              "Set up monitoring alerts">>,
          medium_risk |->
            <<"Review claim details",
              "Request supporting documents",
              "Verify policy coverage",
              "Calculate settlement amount">>,
          low_risk |->
            <<"Process standard approval",
              "Send confirmation letter",
              "Update customer records",
              "Close case">> ]
    ELSE IF case_type = "healthcare_prior_auth" THEN
        [ high_risk |->
            <<"Request medical records",
              "Consult with medical director",
              "Schedule peer review",
              "Notify provider of decision">>,
          medium_risk |->
            <<"Review treatment plan",
              "Verify medical necessity",
              "Check coverage criteria",
              "Make determination">>,
          low_risk |->
            <<"Approve treatment",
              "Send approval letter",
              "Update authorization system",
              "Notify provider">> ]
    ELSE IF case_type = "bank_dispute" THEN
        [ high_risk |->
            <<"Freeze account activity",
              "Initiate fraud investigation",
              "Contact law enforcement",
              "Notify compliance officer">>,
          medium_risk |->
            <<"Review transaction history",
              "Contact customer for details",
              "Investigate merchant",
              "Make provisional credit decision">>,
          low_risk |->
            <<"Process chargeback",
              "Send dispute letter",
              "Update customer account",
              "Monitor for resolution">> ]
    ELSE IF case_type = "legal_intake" THEN
        [ high_risk |->
            <<"Schedule urgent consultation",
              "Prepare legal documents",
              "Notify senior attorney",
              "Set up case management">>,
          medium_risk |->
            <<"Review case details",
              "Schedule consultation",
              "Prepare initial assessment",
              "Assign case number">>,
          low_risk |->
            <<"Schedule standard consultation",
              "Send welcome packet",
              "Create client file",
              "Assign paralegal">> ]
    ELSE <<>>

\* case_patterns.get(risk_level, case_patterns.get("medium_risk", [])): the
\* keys of a row are "high_risk", "medium_risk" and "low_risk"
risk_actions(case_type, risk_level) ==
    LET case_patterns == action_patterns(case_type)
    IN  IF risk_level \in DOMAIN case_patterns
        THEN case_patterns[risk_level]
        ELSE IF "medium_risk" \in DOMAIN case_patterns
        THEN case_patterns["medium_risk"]
        ELSE <<>>

\* the list `actions` after the four extend steps
ExtendedActions(case_type, risk_level, urgency, team) ==
    risk_actions(case_type, risk_level)
    \o (IF urgency \in {"critical", "high"}
        THEN <<"Prioritize for immediate review",
               "Set up escalation monitoring",
               "Notify management team">>
        ELSE <<>>)
    \o (IF team = "FraudReview"
        THEN <<"Initiate fraud investigation",
               "Freeze related accounts",
               "Contact law enforcement if needed">>
        ELSE IF team = "Specialist"
        THEN <<"Schedule specialist review",
               "Prepare detailed analysis",
               "Coordinate with external experts">>
        ELSE IF team = "Escalation"
        THEN <<"Immediate management review",
               "Prepare escalation report",
               "Coordinate cross-functional response">>
        ELSE <<>>)
    \o (IF risk_level \in {"high", "extreme"}
        THEN <<"Document decision rationale",
               "Update compliance logs",
               "Schedule follow-up review">>
        ELSE <<>>)

\* the elements of a list
Elements(actions) == {actions[i] : i \in 1..Len(actions)}

\* a list without its repetitions, each element where it first occurs
FirstOccurrences(actions) ==
    SelectSeq([i \in 1..Len(actions) |->
                  [a |-> actions[i],
                   first |-> \A j \in 1..(i - 1) : actions[j] # actions[i]]],
              LAMBDA e : e.first)

\* the list of the actions of FirstOccurrences
ActionsOf(firsts) == [i \in 1..Len(firsts) |-> firsts[i].a]

\* a list begun at its k-th element, and that list backwards
Rotated(l, k) == [i \in 1..Len(l) |-> l[((i + k - 2) % Len(l)) + 1]]
Reversed(l) == [i \in 1..Len(l) |-> l[Len(l) + 1 - i]]

\* list(set(actions)): the elements once each, in the iteration order of
\* the set, which for strings depends on the hash seed of the process and
\* not on the order of insertion.  The orders modelled are those that begin
\* at any element and go through the list forwards or backwards.
ListOfSet(actions) ==
    LET l == ActionsOf(FirstOccurrences(actions))
    IN  IF l = <<>> THEN {<<>>}
        ELSE {Rotated(l, k) : k \in 1..Len(l)}
             \cup {Reversed(Rotated(l, k)) : k \in 1..Len(l)}

\* the lists _generate_actions can return
_generate_actions(case_type, risk_level, urgency, team) ==
    ListOfSet(ExtendedActions(case_type, risk_level, urgency, team))

\* the arguments provide_support extracts from the agents' results, and
\* the keys of the table as risk levels
ActionCaseTypes ==
    {"insurance_claim", "healthcare_prior_auth", "bank_dispute",
     "legal_intake", "fraud_review"}
ActionRiskLevels == {"low", "medium", "high", "extreme", "high_risk"}
ActionUrgencies == {"low", "medium", "high", "critical"}

\* one _generate_actions call
call__generate_actions(case_type, risk_level, urgency, team) ==
    /\ agent_ret = <<>>
    /\ \E ret \in _generate_actions(case_type, risk_level, urgency, team) :
          agent_ret' = <<[ func |-> "_generate_actions",
                           case_type |-> case_type,
                           risk_level |-> risk_level,
                           urgency |-> urgency,
                           team |-> team,
                           ret |-> ret ]>>
    /\ UNCHANGED <<orchVars, now, auditVars, team_capabilities, team_rows,
                   updates, pairVars, routed, risk_thresholds, piiVars,
                   retry, policyVars, jobVars>>

NextActions ==
    \E case_type \in ActionCaseTypes, risk_level \in ActionRiskLevels,
       urgency \in ActionUrgencies, team \in TeamNames :
        call__generate_actions(case_type, risk_level, urgency, team)

SpecActions == Init /\ [][NextActions]_vars

(***************************************************************************)
(* The background_jobs queue, the enqueue_* helpers and                    *)
(* BackgroundJobProcessor.  A job is a dictionary: a function from its     *)
(* keys to values.  The queue itself (core/redis.py) is taken from its     *)
(* contract: enqueue(queue, job, priority), dequeue(queue) -> job?, higher *)
(* priority first and FIFO within a priority.                              *)
(***************************************************************************)
\* a dictionary display {k1: v1, k2: v2, ...}: of two values for one key
\* the later one stays
Dict(items) ==
    [ k \in {items[i][1] : i \in 1..Len(items)} |->
        LET last == CHOOSE i \in 1..Len(items) :
                       /\ items[i][1] = k
                       /\ \A j \in (i + 1)..Len(items) : items[j][1] # k
        IN  items[last][2] ]

\* d.get(key, default)
DictGet(d, key, default) == IF key \in DOMAIN d THEN d[key] ELSE default

\* self.processors: the handler registered for each job type
processors ==
    [ process_document |-> "_process_document",
      send_notification |-> "_send_notification",
      generate_report |-> "_generate_report",
      update_analytics |-> "_update_analytics",
      cleanup_old_data |-> "_cleanup_old_data" ]

\* the handler each helper enqueues for
HelperJobType ==
    [ enqueue_document_processing |-> "process_document",
      enqueue_notification |-> "send_notification",
      enqueue_report_generation |-> "generate_report",
      enqueue_analytics_update |-> "update_analytics",
      enqueue_cleanup |-> "cleanup_old_data" ]

\* settings.audit_log_retention_days
audit_log_retention_days == 365

\* the queue after enqueue(queue, job, priority): the entry stands behind
\* every entry of the same or a higher priority
enqueue_job(queue, id, job, priority) ==
    LET ahead == SelectSeq(queue, LAMBDA e : e.priority >= priority)
        behind == SelectSeq(queue, LAMBDA e : e.priority < priority)
    IN  ahead \o <<[id |-> id, job |-> job, priority |-> priority]>>
              \o behind

\* a helper's call of enqueue_job; fields is what the helper was called for
Enqueue(helper, fields, job, priority) ==
    /\ Len(job_log.enqueued) < MaxJobs
    /\ LET id == Len(job_log.enqueued) + 1
       IN  /\ job_queue' = enqueue_job(job_queue, id, job, priority)
           /\ job_log' = [job_log EXCEPT !.enqueued =
                             Append(@, [helper |-> helper,
                                        fields |-> fields])]
    /\ UNCHANGED <<orchVars, now, auditVars, teamVars, policyVars, processor>>

enqueue_document_processing(document_id, priority) ==
    Enqueue("enqueue_document_processing",
            [document_id |-> document_id],
            Dict(<< <<"type", "process_document">>,
                    <<"document_id", document_id>> >>),
            priority)

enqueue_notification(user_id, message, notification_type, priority) ==
    Enqueue("enqueue_notification",
            [user_id |-> user_id, message |-> message,
             type |-> notification_type],
            Dict(<< <<"type", "send_notification">>,
                    <<"user_id", user_id>>,
                    <<"message", message>>,
                    <<"type", notification_type>> >>),
            priority)

enqueue_report_generation(report_type, date_range, user_id, priority) ==
    Enqueue("enqueue_report_generation",
            [report_type |-> report_type, date_range |-> date_range,
             user_id |-> user_id],
            Dict(<< <<"type", "generate_report">>,
                    <<"report_type", report_type>>,
                    <<"date_range", date_range>>,
                    <<"user_id", user_id>> >>),
            priority)

enqueue_analytics_update(case_id, action, priority) ==
    Enqueue("enqueue_analytics_update",
            [case_id |-> case_id, action |-> action],
            Dict(<< <<"type", "update_analytics">>,
                    <<"case_id", case_id>>,
                    <<"action", action>> >>),
            priority)

\* retention_days or settings.audit_log_retention_days; 0 stands for None
enqueue_cleanup(retention_days, priority) ==
    LET days == IF retention_days = 0 THEN audit_log_retention_days
                ELSE retention_days
    IN  Enqueue("enqueue_cleanup",
                [retention_days |-> days],
                Dict(<< <<"type", "cleanup_old_data">>,
                        <<"retention_days", days>> >>),
                priority)

\* start's loop calls _process_queue: get_queue_length is awaited; with an
\* empty queue _process_queue returns and the loop sleeps again, otherwise
\* dequeue_job is awaited
get_queue_length_returns ==
    /\ processor.pc = "sleep"
    /\ job_queue # <<>>
    /\ processor' = [processor EXCEPT !.pc = "dequeue_job"]
    /\ UNCHANGED <<orchVars, now, auditVars, teamVars, policyVars, job_queue,
                   job_log>>

\* dequeue_job returns the first entry, which leaves the queue, or None
dequeue_job_returns ==
    /\ processor.pc = "dequeue_job"
    /\ IF job_queue = <<>>
       THEN /\ processor' = [processor EXCEPT !.pc = "sleep"]
            /\ UNCHANGED job_queue
       ELSE /\ processor' = [pc |-> "_process_job",
                             id |-> Head(job_queue).id,
                             job_data |-> Head(job_queue).job]
            /\ job_queue' = Tail(job_queue)
    /\ UNCHANGED <<orchVars, now, auditVars, teamVars, policyVars, job_log>>

\* _process_job: the handler registered for job_data.get("type") is awaited
\* with job_data.get("data", {}) and returns or raises; without a handler
\* the job type is logged as unknown.  The except branch logs.  In every
\* case _process_queue returns and the loop sleeps.
_process_job(raises) ==
    /\ processor.pc = "_process_job"
    /\ LET job_type == DictGet(processor.job_data, "type", NoneStr)
           data == DictGet(processor.job_data, "data", EmptyDict)
           handler == DictGet(processors, job_type, NoneStr)
       IN  job_log' = [job_log EXCEPT !.handled =
                          Append(@, [id |-> processor.id,
                                     handler |-> handler,
                                     data |-> data,
                                     completed |-> handler # NoneStr
                                                     /\ ~raises])]
    /\ processor' = ProcessorStarted
    /\ UNCHANGED <<orchVars, now, auditVars, teamVars, policyVars, job_queue>>

\* arguments of the helpers
Priorities == {0, 1}
NotificationTypes == {"info", "warning"}
RetentionDays == {0, 30}

NextJobs ==
    \/ \E priority \in Priorities :
          enqueue_document_processing("doc-1", priority)
    \/ \E notification_type \in NotificationTypes, priority \in Priorities :
          enqueue_notification("user-1", "Case assigned", notification_type,
                               priority)
    \/ \E priority \in Priorities :
          enqueue_report_generation("daily", "2024-01", "user-1", priority)
    \/ \E priority \in Priorities :
          enqueue_analytics_update("case-1", "triaged", priority)
    \/ \E retention_days \in RetentionDays, priority \in Priorities :
          enqueue_cleanup(retention_days, priority)
    \/ get_queue_length_returns
    \/ dequeue_job_returns
    \/ \E raises \in BOOLEAN : _process_job(raises)

SpecJobs == Init /\ [][NextJobs]_vars

(***************************************************************************)
(* Properties of the agent entry points, checked under SpecAgents.         *)
(***************************************************************************)
\* the last entry-point call was of func
Called(func) == agent_ret # <<>> /\ agent_ret[1].func = func

C14_RiskLevelMatchesThresholds ==
    (Called("score_risk") /\ risk_thresholds.medium <= risk_thresholds.high) =>
        LET v == agent_ret[1].ret.value
        IN  /\ v.risk_level = "high" <=> v.risk_score >= risk_thresholds.high
            /\ v.risk_level = "medium" <=>
                  ( /\ risk_thresholds.medium <= v.risk_score
                    /\ v.risk_score < risk_thresholds.high )
            /\ v.risk_level = "low" <=> v.risk_score < risk_thresholds.medium
            /\ v.risk_level # "extreme"

(***************************************************************************)
(* Properties of the audit log, checked under SpecAudit.                   *)
(***************************************************************************)
\* C8: the first audit entry has an empty previous_hash, every later entry's
\* previous_hash is the current_hash of the entry appended just before it,
\* and no two entries have the same predecessor.
C8_ChainLinked ==
    \A i \in 1..Len(audit_logs) :
        /\ i = 1 => audit_logs[i].previous_hash \in {"", NoneStr}
        /\ i > 1 => audit_logs[i].previous_hash = audit_logs[i - 1].current_hash
        /\ \A j \in 1..Len(audit_logs) :
              i # j => audit_logs[i].previous_hash # audit_logs[j].previous_hash

\* C9: an audit hash depends on the data and previous_hash only: two
\* generate_audit_hash calls with the same arguments give the same hash, and
\* _calculate_hash computed again from a stored row gives its current_hash.
C9_HashRecomputable ==
    /\ \A c, d \in hash_calls :
          (c.data = d.data /\ c.previous_hash = d.previous_hash)
              => c.hash = d.hash
    /\ \A i \in 1..Len(audit_logs) :
          _calculate_hash(audit_logs[i], now) = audit_logs[i].current_hash

(***************************************************************************)
(* Properties of the team loads, checked under SpecTeams.                  *)
(***************************************************************************)
\* C10: every team's load stays within 0..capacity, and an acquire (+1) on
\* a team whose load has reached its capacity leaves the load unchanged.
C10_LoadWithinCapacity ==
    /\ [](\A t \in TeamNames :
            0 <= team_capabilities[t] /\ team_capabilities[t] <= TeamCapacity[t])
    /\ [](\A t \in TeamRowNames :
            0 <= team_rows[t] /\ team_rows[t] <= TeamRowCapacity[t])
    /\ [][\A t \in TeamNames :
            team_capabilities[t] >= TeamCapacity[t]
                => team_capabilities'[t] <= team_capabilities[t]]_vars
    /\ [][\A t \in TeamRowNames :
            team_rows[t] >= TeamRowCapacity[t]
                => team_rows'[t] <= team_rows[t]]_vars

(***************************************************************************)
(* Properties of acquire / release pairs, checked under SpecPairs.         *)
(***************************************************************************)
\* the pairs that hold team t
Holders(t) == {p \in Pairs : pairs[p].pc = "held" /\ pairs[p].team = t}

\* C11: an acquire of team T followed by its release leaves T's load at the
\* value before the acquire and every other team's load unchanged, also
\* when pairs interleave: at every moment each team's load is its load
\* before the pairs plus the number of pairs holding it.
C11_AcquireReleaseRoundTrip ==
    \A t \in TeamNames :
        team_capabilities[t] = base_load[t] + Cardinality(Holders(t))

\* a pair on a loaded team has been released while another pair, acquired
\* in between, still holds the same team
C11_Witness ==
    \E p, q \in Pairs :
        /\ p # q
        /\ pairs[p].pc = "released"
        /\ pairs[q].pc = "held"
        /\ pairs[q].team = pairs[p].team
        /\ pairs[p].team \in TeamNames
        /\ base_load[pairs[p].team] > 0

(***************************************************************************)
(* Properties of PII detection and redaction, checked under SpecPii.       *)
(***************************************************************************)
\* the strings a dictionary holds, at any depth
RECURSIVE StringsIn(_, _)
StringsIn(objects, id) ==
    LET d == objects[id]
    IN  UNION { IF d[k].kind = "str" THEN {d[k].str}
                ELSE IF d[k].kind = "dict" THEN StringsIn(objects, d[k].ref)
                ELSE {} : k \in DOMAIN d }

\* the contents of a dictionary, the dictionaries it refers to by their
\* contents
RECURSIVE Contents(_, _)
Contents(objects, id) ==
    LET d == objects[id]
    IN  [k \in DOMAIN d |->
           [ kind |-> d[k].kind, str |-> d[k].str,
             sub |-> IF d[k].kind = "dict"
                     THEN <<Contents(objects, d[k].ref)>> ELSE <<>> ]]

\* the strings of a case dictionary that _redact_content substitutes in
RedactedStrings(objects, id) ==
    LET d == objects[id]
        metadata == objects[d.metadata.ref]
    IN  {d[f].str : f \in {"title", "description", "customer_id"}}
          \cup {metadata[k].str :
                  k \in {key \in DOMAIN metadata : metadata[key].kind = "str"}}

PiiCalls(func) == {i \in 1..Len(pii_ret) : pii_ret[i].func = func}

\* C15: when PII detection is enabled and a string of the submitted case,
\* in any field or in the metadata at any depth, contains the sample of a
\* PII type, process_compliance returns pii_detected = true with the type
\* in pii_types, and the sample occurs in no string of redacted_content.
C15_PiiDetectionComplete ==
    \A i \in PiiCalls("process_compliance") :
       \A t \in PiiTypes :
          ( /\ pii_detection_enabled
            /\ \E s \in StringsIn(submitted, CaseRef) :
                  Occurs(pii_samples[t], s) ) =>
             LET ret == pii_ret[i].ret
             IN  /\ ret.pii_detected
                 /\ \E n \in 1..Len(ret.pii_types) : ret.pii_types[n] = t
                 /\ \A s \in StringsIn(heap, ret.redacted_content) :
                       ~Occurs(pii_samples[t], s)

\* C16: redaction applied to what redaction returned changes nothing:
\* redact_pii on the text an earlier redact_pii returned returns that text
\* and detects no type; _detect_pii on the redacted_content an earlier
\* _detect_pii returned returns a dictionary with the same contents, and
\* no pattern matches a string _redact_content substitutes in.
C16_RedactionIdempotent ==
    /\ \A i, j \in PiiCalls("redact_pii") :
          (i < j /\ pii_ret[j].arg = pii_ret[i].ret.redacted_text) =>
             /\ pii_ret[j].ret.redacted_text = pii_ret[j].arg
             /\ pii_ret[j].ret.detected_types = <<>>
    /\ \A i, j \in PiiCalls("_detect_pii") :
          (i < j /\ pii_ret[j].arg = pii_ret[i].ret.redacted_content) =>
             /\ Contents(heap, pii_ret[j].ret.redacted_content)
                   = Contents(heap, pii_ret[j].arg)
             /\ \A n \in 1..Len(pii_patterns) :
                   \A s \in RedactedStrings(heap, pii_ret[j].arg) :
                      ~re_search(pii_patterns[n].pattern, s)

\* a case in which _detect_pii found PII and substituted it was given to
\* _detect_pii again
C16_Witness ==
    \E i, j \in PiiCalls("_detect_pii") :
       /\ i < j
       /\ pii_ret[i].ret.detected
       /\ pii_ret[j].arg = pii_ret[i].ret.redacted_content
       /\ Contents(heap, pii_ret[i].ret.redacted_content)
             # Contents(heap, pii_ret[i].arg)

\* C17: the dictionaries of the submitted case, the case dictionary and
\* its metadata, hold what they held when the case was submitted, whatever
\* calls of the compliance agent were made, with PII detection enabled or
\* not, PII found or not: redaction stores into the copies only.
C17_SubmittedCaseUnchanged ==
    /\ Len(heap) >= Len(submitted)
    /\ \A id \in 1..Len(submitted) : heap[id] = submitted[id]

\* process_compliance ran with PII detection enabled and the redaction
\* made a copy of the metadata that differs from the metadata submitted
C17_Witness ==
    /\ PiiCalls("process_compliance") # {}
    /\ pii_detection_enabled
    /\ \E id \in (Len(submitted) + 1)..Len(heap) :
          /\ DOMAIN heap[id] = DOMAIN submitted[2]
          /\ heap[id] # submitted[2]
          /\ heap[2] = submitted[2]

(***************************************************************************)
(* Properties of the final decision's numbers, checked under SpecDecision. *)
(***************************************************************************)
\* the weights the agents are given
AgentWeight ==
    [ ClassifierAgent |-> 25, RiskScorerAgent |-> 25, RouterAgent |-> 20,
      DecisionSupportAgent |-> 15, ComplianceAgent |-> 15 ]

RECURSIVE SumOver(_, _)
SumOver(indices, term) ==
    IF indices = {} THEN 0
    ELSE LET i == CHOOSE j \in indices : TRUE
         IN  term[i] + SumOver(indices \ {i}, term)

\* C18: in every final decision 0 <= overall_confidence <= 1 and
\* 0 <= risk_score <= 1, and overall_confidence is the sum of weight times
\* confidence over the agent results present divided by the sum of their
\* weights (0.25, 0.25, 0.20, 0.15, 0.15), for any of the agents present
\* and any confidences in [0, 1].
C18_ConfidenceIsWeightedMean ==
    Called("_generate_final_decision") =>
        LET results == agent_ret[1].agent_results
            decision == agent_ret[1].ret.value
            overall == decision.overall_confidence
            present == 1..Len(results)
            weight == [i \in present |-> AgentWeight[results[i].agent_name]]
            weighted == [i \in present |-> weight[i] * results[i].confidence]
        IN  /\ 0 <= decision.risk_score /\ decision.risk_score <= 10000
            /\ overall.den > 0
            /\ 0 <= overall.num /\ overall.num <= 10000 * overall.den
            /\ present # {} =>
                  overall.num * SumOver(present, weight)
                     = SumOver(present, weighted) * overall.den

\* a final decision from the results of three agents, of different
\* confidences, with a risk score between the bounds
C18_Witness ==
    /\ Called("_generate_final_decision")
    /\ Len(agent_ret[1].agent_results) = 3
    /\ \E i, j \in 1..3 : agent_ret[1].agent_results[i].confidence
                             # agent_ret[1].agent_results[j].confidence
    /\ agent_ret[1].ret.value.risk_score > 0
    /\ agent_ret[1].ret.value.risk_score < 10000
    /\ agent_ret[1].ret.value.overall_confidence.num > 0

(***************************************************************************)
(* Properties of _run_with_retry, checked under SpecRetry.                 *)
(***************************************************************************)
\* the attempt failed by timeout or by an error whose message does not
\* mention circuit_breaker
FailedPlainly(outcome) ==
    \/ outcome.kind = "timeout"
    \/ outcome.kind = "error" /\ ~MentionsCircuitBreaker(outcome.error)

\* C19: when every attempt fails, by timeout or by an error whose message
\* does not contain 'circuit_breaker', _run_with_retry makes exactly
\* max_retries attempts and then raises the last error, and it has not
\* ended before; when an attempt returns, _run_with_retry returns that
\* result and this attempt is the last.
C19_ExactlyMaxRetriesAttempts ==
    LET made == Len(retry.outcomes)
        ended == retry.pc \in {"returned", "raised"}
    IN  /\ made <= max_retries
        /\ (\A i \in 1..made : FailedPlainly(retry.outcomes[i])) =>
              /\ ended <=> made = max_retries
              /\ ended => /\ retry.pc = "raised"
                          /\ retry.result = retry.outcomes[made].error
        /\ \A i \in 1..made :
              retry.outcomes[i].kind = "returned" =>
                 /\ i = made
                 /\ retry.pc = "returned"
                 /\ retry.result = "result"

\* three attempts failed, by timeout and by error, and the last error was
\* raised
C19_Witness ==
    /\ retry.pc = "raised"
    /\ Len(retry.outcomes) = max_retries
    /\ retry.outcomes[1].kind = "timeout"
    /\ retry.outcomes[2].kind = "error"
    /\ retry.outcomes[3].kind = "timeout"
    /\ retry.slept = wait_time(0) + wait_time(1)
    /\ retry.result = AgentTimeoutError(2)

(***************************************************************************)
(* The trial call after the open timeout, checked under Spec.              *)
(***************************************************************************)
\* run s was admitted as the trial after the open timeout and is suspended
\* at an await of its pipeline
TrialInProgress(s) ==
    /\ run[s].started = "open_timeout_elapsed"
    /\ run[s].pc \in {"agent_call", "backoff"}

\* C20: while the trial run admitted after the open timeout is still in
\* progress, every other run_triage call on the same orchestrator fails
\* fast: it returns success false without invoking an agent (calls after a
\* reset_circuit_breaker in between are left aside).
C20_OnlyOneTrialAdmitted ==
    [][\A r \in Runs : \A s \in Runs \ {r} :
          ( /\ TrialInProgress(s)
            /\ just_reset = "no"
            /\ run[r].pc \in {"idle", "done"}
            /\ run'[r] # run[r] )
          => /\ run'[r].pc = "done"
             /\ run'[r].ret.success = FALSE
             /\ run'[r].invoked = <<>>]_vars

(***************************************************************************)
(* Backoff and the circuit_breaker errors of _run_with_retry, checked      *)
(* under SpecRetry.                                                        *)
(***************************************************************************)
\* every attempt made so far failed by timeout or by a plain error
AllFailedPlainly ==
    \A i \in 1..Len(retry.outcomes) : FailedPlainly(retry.outcomes[i])

RECURSIVE SleptBefore(_)
\* the seconds slept before attempt number n (from 1): 2^0 + ... + 2^(n-2)
SleptBefore(n) ==
    IF n <= 1 THEN 0 ELSE SleptBefore(n - 1) + 2 ^ (n - 2)

\* C22 as stated: between consecutive failed attempts the orchestrator
\* sleeps 2^attempt seconds, and with max_retries = 3 the backoff slept
\* before the hard failure is raised adds up to 1+2+4 = 7 seconds.
C22_CumulativeBackoffSeven ==
    (retry.pc = "raised" /\ AllFailedPlainly) => retry.slept = 1 + 2 + 4

\* C22 amended: between consecutive failed attempts the orchestrator sleeps
\* 2^attempt seconds (attempt counted from 0), and nothing after the last
\* one: with max_retries = 3 the backoff slept before the hard failure is
\* raised adds up to 1+2 = 3 seconds.
C22_CumulativeBackoff ==
    LET made == Len(retry.outcomes)
    IN  /\ retry.pc = "agent_call" => retry.slept = SleptBefore(made + 1)
        /\ (retry.pc = "backoff" /\ made >= 1) =>
              retry.slept = SleptBefore(made) + 2 ^ (made - 1)
        /\ (retry.pc = "raised" /\ AllFailedPlainly) => retry.slept = 1 + 2

\* three attempts failed plainly and the hard failure is raised
C22_Witness ==
    /\ retry.pc = "raised"
    /\ AllFailedPlainly
    /\ Len(retry.outcomes) = max_retries
    /\ retry.outcomes[1].kind = "error"
    /\ retry.outcomes[3].kind = "error"

\* C23: an error whose message contains 'circuit_breaker' (in any case of
\* letters) is raised again after the attempt that raised it, whichever
\* attempt it is: that attempt is the last, and nothing is slept after it.
C23_CircuitBreakerErrorNotRetried ==
    LET made == Len(retry.outcomes)
    IN  \A i \in 1..made :
           ( /\ retry.outcomes[i].kind = "error"
             /\ Occurs(circuit_breaker_text, Lower(retry.outcomes[i].error)) )
           => /\ i = made
              /\ retry.pc = "raised"
              /\ retry.result = retry.outcomes[i].error
              /\ retry.slept = SleptBefore(i)

\* the second attempt raises 'Circuit_Breaker' after a first plain failure
C23_Witness ==
    /\ retry.pc = "raised"
    /\ Len(retry.outcomes) = 2
    /\ retry.outcomes[1].kind = "timeout"
    /\ retry.outcomes[2].kind = "error"
    /\ retry.outcomes[2].error = retry.result
    /\ retry.result[1] = "C"
    /\ Occurs(circuit_breaker_text, Lower(retry.result))

(***************************************************************************)
(* The breaker's fields together, checked under Spec.                      *)
(***************************************************************************)
\* C30: in every reachable state, over all interleavings of run_triage
\* calls and reset_circuit_breaker calls, circuit_open implies that
\* failure_count is at least circuit_breaker_threshold and that
\* last_failure_time is set.
C30_OpenImpliesThresholdReached ==
    circuit_open =>
       /\ failure_count >= circuit_breaker_threshold
       /\ last_failure_time # NoTime

\* the breaker is open while a run admitted before it opened is still at
\* an await
C30_Witness ==
    /\ circuit_open
    /\ failure_count > circuit_breaker_threshold
    /\ \E r \in Runs : run[r].pc \in {"agent_call", "backoff"}

(***************************************************************************)
(* The case without keywords, checked under SpecClassify.                  *)
(***************************************************************************)
\* the text contains none of the urgency keywords and none of the case-type
\* keywords
NoKeywords(text) ==
    /\ \A i \in 1..Len(case_type_keywords) :
          \A k \in 1..Len(case_type_keywords[i].keywords) :
             ~Occurs(case_type_keywords[i].keywords[k], text)
    /\ \A i \in 1..Len(urgency_keywords) :
          \A k \in 1..Len(urgency_keywords[i].keywords) :
             ~Occurs(urgency_keywords[i].keywords[k], text)

\* C21: a case whose text contains no urgency keyword and no case-type
\* keyword is classified insurance_claim with urgency low, and with amount
\* at most 5000 and no missing fields its triage yields risk_level low,
\* team Tier-2, 72 hours and no escalation.
C21_NoKeywordCaseIsRoutine ==
    (Len(agent_ret) >= 1 /\ agent_ret[1].func = "classify"
       /\ "text" \in DOMAIN agent_ret[1] /\ NoKeywords(agent_ret[1].text)) =>
       /\ agent_ret[1].ret.value.case_type = "insurance_claim"
       /\ agent_ret[1].ret.value.urgency = "low"
       /\ (Len(agent_ret) >= 2 /\ agent_ret[2].amount <= 5000) =>
             agent_ret[2].ret.value.risk_level = "low"
       /\ (Len(agent_ret) >= 3 /\ agent_ret[2].amount <= 5000
             /\ ~OpaSuppliedTeam(agent_ret[3].response)) =>
             /\ agent_ret[3].ret.recommended_team = "Tier2"
             /\ agent_ret[3].ret.sla_target_hours = 72
             /\ agent_ret[3].ret.escalation_flag = FALSE

(***************************************************************************)
(* The built-in routing rules, checked under SpecRules.                    *)
(***************************************************************************)
\* the outcome of the first rule that matches, in the priority order of the
\* rules: team, hours, escalation
FirstMatchingRule(case_type, urgency, risk_level, fraud_indicators) ==
    IF risk_level \in {"high", "extreme"} THEN <<"Escalation", 4, TRUE>>
    ELSE IF case_type = "fraud_review" \/ fraud_indicators
    THEN <<"FraudReview", 24, FALSE>>
    ELSE IF case_type = "legal_intake" THEN <<"Specialist", 48, FALSE>>
    ELSE IF urgency \in {"critical", "high"} THEN <<"Tier1", 2, FALSE>>
    ELSE <<"Tier2", 72, FALSE>>

\* C24: _apply_business_rules returns the outcome of the first matching
\* rule, for every case_type, urgency, risk_level and presence of fraud
\* indicators: high or extreme risk -> Escalation, 4h, escalation; fraud
\* review or fraud indicators -> Fraud-Review, 24h; legal_intake ->
\* Specialist, 48h; critical or high urgency -> Tier-1, 2h; otherwise
\* Tier-2, 72h.
C24_FirstMatchingRuleWins ==
    \A i \in 1..Len(agent_ret) :
       agent_ret[i].func = "_apply_business_rules" =>
          LET c == agent_ret[i].classification_result
              r == agent_ret[i].risk_result
              fraud == \E k \in 1..Len(r.risk_factors) :
                          r.risk_factors[k] = "fraud_indicators"
              got == agent_ret[i].ret
          IN  <<got.team, got.sla_hours, got.escalation>> =
                 FirstMatchingRule(c.case_type, c.urgency, r.risk_level, fraud)

(***************************************************************************)
(* The capacity check of the router, checked under SpecCapacity.           *)
(***************************************************************************)
\* the team's load is below the given tenths of its capacity
Below(tenths, team) ==
    10 * team_capabilities[team] < tenths * TeamCapacity[team]

\* C25: _validate_team_capacity keeps the chosen team and its confidence
\* when the team's load is below 0.9 of its capacity; otherwise it returns
\* the first team of the chosen team's alternatives whose load is below 0.8
\* of its capacity, or Tier-2 if there is none, and multiplies the
\* confidence by 0.9, which leaves at most 0.855 when the policy evaluator
\* chose the team.
C25_CapacityReroute ==
    \A i \in 1..Len(agent_ret) :
       agent_ret[i].func = "_validate_team_capacity" =>
          LET chosen == agent_ret[i].routing_result
              got == agent_ret[i].ret
              alts == alternatives[chosen.team]
          IN  IF Below(9, chosen.team)
              THEN got = chosen
              ELSE /\ \/ \E k \in 1..Len(alts) :
                            /\ got.team = alts[k]
                            /\ Below(8, alts[k])
                            /\ \A j \in 1..(k - 1) : ~Below(8, alts[j])
                      \/ /\ got.team = "Tier2"
                         /\ \A k \in 1..Len(alts) : ~Below(8, alts[k])
                   /\ 10 * got.confidence = 9 * chosen.confidence
                   /\ chosen.policy_applied = "opa_policy" =>
                         got.confidence <= 8550
                   /\ got.sla_hours = chosen.sla_hours

\* Tier-1, chosen by the policy evaluator, is at 90% and its first
\* alternative at 80%: the case goes to the second alternative
C25_Witness ==
    /\ Len(agent_ret) = 1
    /\ agent_ret[1].func = "_validate_team_capacity"
    /\ agent_ret[1].routing_result.team = "Tier1"
    /\ agent_ret[1].routing_result.policy_applied = "opa_policy"
    /\ ~Below(9, "Tier1")
    /\ ~Below(8, "Tier2")
    /\ agent_ret[1].ret.team = "Specialist"
    /\ agent_ret[1].ret.confidence = 8550

(***************************************************************************)
(* The compliance confidence, checked under SpecConfidence.  Confidences   *)
(* are in 1/10000.                                                         *)
(***************************************************************************)
\* the calls of _calculate_compliance_confidence made
ConfidenceCalls ==
    {i \in 1..Len(agent_ret) :
        agent_ret[i].func = "_calculate_compliance_confidence"}

\* C26 as stated: compliance confidence is 0.8, minus 0.1 if PII was
\* detected, minus 0.05 for each compliance issue, clipped to [0,1], for any
\* number of issues.
C26_ConfidencePerIssue ==
    \A i \in ConfidenceCalls :
       LET raw == 8000 - (IF agent_ret[i].detected THEN 1000 ELSE 0)
                       - 500 * agent_ret[i].issues
       IN  agent_ret[i].ret =
              (IF raw < 0 THEN 0 ELSE IF raw > 10000 THEN 10000 ELSE raw)

\* C26 amended: compliance confidence is 0.8, minus 0.1 if PII was
\* detected, minus 0.05 for each compliance issue up to six of them and 0.3
\* for more than six; it is never below 0.4.
C26_ConfidencePerIssueUpToSix ==
    \A i \in ConfidenceCalls :
       LET pii == IF agent_ret[i].detected THEN 1000 ELSE 0
           n == agent_ret[i].issues
       IN  /\ n <= 6 => agent_ret[i].ret = 8000 - pii - 500 * n
           /\ n > 6 => agent_ret[i].ret = 5000 - pii
           /\ agent_ret[i].ret >= 4000

\* PII detected and seven issues
C26_Witness ==
    \E i \in ConfidenceCalls :
       /\ agent_ret[i].detected
       /\ agent_ret[i].issues = 7
       /\ agent_ret[i].ret = 4000

(***************************************************************************)
(* The policy watcher, checked under SpecPolicies.                         *)
(***************************************************************************)
\* C27: a policy file whose modification time is newer than that of its
\* last successful load is reloaded at the next poll (every file the poll
\* found changed, and still there, has been tried when the poll ends); a
\* failed reload leaves the loaded version and last_modified as they were,
\* so that it is tried again at later polls; and a file is reloaded only
\* when its modification time is newer than at its last successful reload.
C27_ChangedFilesReloaded ==
    [][ /\ (watcher.pc = "load_policy" /\ watcher' # watcher
               /\ ~watcher'.success) =>
              /\ opa_policies' = opa_policies
              /\ watcher'.last_modified = watcher.last_modified
        /\ watcher'.pc = "load_policy" =>
              watcher'.current_mtime >
                 watcher'.last_modified[watcher'.policy_file]
        /\ (watcher' # watcher /\ watcher'.pc = "sleep") =>
              \A f \in watcher'.changed :
                 policy_files[f].exists => f \in watcher'.tried ]_vars

(***************************************************************************)
(* DecisionSupportAgent._generate_actions, checked under SpecActions.      *)
(***************************************************************************)
\* C28: the list _generate_actions returns contains each action exactly
\* once, in the order of its first occurrence in the concatenation of the
\* table actions, the urgency additions, the team additions and the
\* risk-level additions.
C28_ActionsInFirstOccurrenceOrder ==
    \A i \in 1..Len(agent_ret) :
        agent_ret[i].func = "_generate_actions" =>
            agent_ret[i].ret =
                ActionsOf(FirstOccurrences(
                    ExtendedActions(agent_ret[i].case_type,
                                    agent_ret[i].risk_level,
                                    agent_ret[i].urgency,
                                    agent_ret[i].team)))

(***************************************************************************)
(* The background jobs, checked under SpecJobs.                            *)
(***************************************************************************)
\* the job with this number is waiting in the queue or with the processor
Pending(id) ==
    \/ \E i \in 1..Len(job_queue) : job_queue[i].id = id
    \/ processor.pc = "_process_job" /\ processor.id = id

\* the job with this number was executed by the handler registered for its
\* helper, which got the fields the helper was called with
Executed(id) ==
    \E i \in 1..Len(job_log.handled) :
        LET h == job_log.handled[i]
            e == job_log.enqueued[id]
        IN  /\ h.id = id
            /\ h.completed
            /\ h.handler = processors[HelperJobType[e.helper]]
            /\ \A k \in DOMAIN e.fields :
                  k \in DOMAIN h.data /\ h.data[k] = e.fields[k]

\* C29: every job enqueued by an enqueue_* helper is executed by the handler
\* registered for its kind with the fields it was enqueued with, and a job
\* that was dequeued is not lost when the lookup of its handler or the
\* handler fails: at any time a job enqueued is waiting in the queue, is
\* with the processor, or has been executed.
C29_EnqueuedJobsExecuted ==
    \A id \in 1..Len(job_log.enqueued) : Pending(id) \/ Executed(id)

====
